---- MODULE Spec2Model ----
(***************************************************************************)
(* Model of the invoice editing session of src/app.py (Flask routes over   *)
(* the session keys df_staging, history, audit_log) and of the priority    *)
(* rule engine of src/modules/priority_manager.py.                         *)
(*                                                                         *)
(* Text values are sequences of one-character strings, so that lower(),    *)
(* upper(), strip(), startswith(), contains() and the numeric parse are    *)
(* computed on the characters as the code computes them.  Labels the code  *)
(* only ever compares as a whole (priority labels, reasons, row status)    *)
(* are one-element sequences holding the whole label.                      *)
(***************************************************************************)
EXTENDS Integers, Sequences, FiniteSets, TLC

VARIABLES
    df_staging,          \* session['df_staging']: sequence of rows (dict per row)
    history,             \* session['history']: sequence of undo entries, newest last
    audit_log,           \* session['audit_log']: sequence of audit entries
    pay_group_col_name,  \* session['pay_group_col_name']
    file_id,             \* session['file_id'], "<none>" once the session is cleared
    rules,               \* user_priority_rules.json -> 'rules'
    settings,            \* user_priority_rules.json -> 'settings'
    last,                \* the last request served: route, response, state before it
    seen_ids,            \* every _row_id held by a row of any table before the last request
    budget,              \* number of requests the session will still be sent
    snapshot,            \* the table upload_file stored in the session at load
    other,               \* the session keys of a second browser session
    inflight             \* the requests that have read the session and not yet written it

vars == <<df_staging, history, audit_log, pay_group_col_name, file_id, rules, settings,
          last, seen_ids, budget, snapshot, other, inflight>>

-----------------------------------------------------------------------------
(* Bounds of the model *)

\* requests sent to a freshly loaded session / to a session with a deep history
MaxOps == 3
MaxDeepOps == 2
\* requests sent in the specification of the row operations
MaxRowOps == 4
\* requests sent in the specification of the rule engine
MaxRuleOps == 2
\* requests sent in the specification of the request tokens
MaxTokenOps == 2
\* requests sent in the specification of the overlapping requests
MaxConcurrentOps == 2
\* requests sent in the specification of the two sessions
MaxSessionOps == 2
\* requests sent, and rows loaded, in the specification of the large bulk deletes
MaxBulkOps == 3
MaxImportOps == 2
BulkRows == 52

-----------------------------------------------------------------------------
(* Program constants *)

UNDO_STACK_LIMIT == 15

-----------------------------------------------------------------------------
(* Text *)

UpperLetters == <<"A","B","C","D","E","F","G","H","I","J","K","L","M",
                  "N","O","P","Q","R","S","T","U","V","W","X","Y","Z">>
LowerLetters == <<"a","b","c","d","e","f","g","h","i","j","k","l","m",
                  "n","o","p","q","r","s","t","u","v","w","x","y","z">>
DigitChars == <<"0","1","2","3","4","5","6","7","8","9">>

IndexOf(ch, seq) ==
    IF \E i \in 1..Len(seq) : seq[i] = ch
    THEN CHOOSE i \in 1..Len(seq) : seq[i] = ch
    ELSE 0

SetMin(S) == CHOOSE x \in S : \A y \in S : x <= y
SetMax(S) == CHOOSE x \in S : \A y \in S : x >= y

\* float('nan') in a cell, None from dict.get on a missing key
NaN == <<"<NaN>">>
NoneVal == <<"<None>">>

\* str(value) / Series.astype(str)
StrOf(v) ==
    IF v = NaN THEN <<"n","a","n">>
    ELSE IF v = NoneVal THEN <<"N","o","n","e">>
    ELSE v

str_lower(s) ==
    IF s = <<>> THEN <<>>
    ELSE [i \in 1..Len(s) |->
            LET k == IndexOf(s[i], UpperLetters)
            IN  IF k = 0 THEN s[i] ELSE LowerLetters[k]]

str_upper(s) ==
    IF s = <<>> THEN <<>>
    ELSE [i \in 1..Len(s) |->
            LET k == IndexOf(s[i], LowerLetters)
            IN  IF k = 0 THEN s[i] ELSE UpperLetters[k]]

str_strip(s) ==
    LET keep == {i \in 1..Len(s) : s[i] # " "}
    IN  IF keep = {} THEN <<>> ELSE SubSeq(s, SetMin(keep), SetMax(keep))

str_startswith(s, p) ==
    Len(p) <= Len(s) /\ SubSeq(s, 1, Len(p)) = p

str_contains(s, p) ==
    \E i \in 0..(Len(s) - Len(p)) : SubSeq(s, i + 1, i + Len(p)) = p

\* str.replace(r'[$,]', '', regex=True)
StripCurrency(s) == SelectSeq(s, LAMBDA c : c \notin {"$", ","})

IsNumeric(s) ==
    s # <<>> /\ \A i \in 1..Len(s) : IndexOf(s[i], DigitChars) # 0

RECURSIVE ParseNat(_)
ParseNat(s) ==
    IF s = <<>> THEN 0
    ELSE ParseNat(SubSeq(s, 1, Len(s) - 1)) * 10 + (IndexOf(s[Len(s)], DigitChars) - 1)

\* the "not a number" result of pd.to_numeric(errors='coerce'): compares false with everything
NotANumber == -1

\* pd.to_numeric(clean, errors='coerce') on one cell
to_numeric(s) ==
    LET t == str_strip(s)
    IN  IF IsNumeric(t) THEN ParseNat(t) ELSE NotANumber

\* _safe_numeric_convert on one cell
_safe_numeric_convert(v) == to_numeric(StripCurrency(StrOf(v)))

-----------------------------------------------------------------------------
(* Labels and column names *)

Alta == <<"Alta">>
Media == <<"Media">>
Baja == <<"Baja">>
PriorityLabels == {Alta, Media, Baja}

Completo == <<"Completo">>
Incompleto == <<"Incompleto">>

ReasonScf == <<"Prioridad base (SCF/Intercompany)">>
ReasonPayGroup == <<"Prioridad base (Pay Group)">>
ReasonEstandar == <<"Prioridad base (Estandar)">>
ReasonDesactivada == <<"Prioridad base (Desactivada/No encontrada)">>
ReasonNuevaFila == <<"Nueva Fila">>

TxtScf == <<"S","C","F">>
TxtIntercompany == <<"I","N","T","E","R","C","O","M","P","A","N","Y">>
TxtPayGroup == <<"P","A","Y"," ","G","R","O","U","P">>

\* key.startswith('_') for the column names of the model
StartsWithUnderscore(key) ==
    key \in {"_row_id", "_row_status", "_priority", "_priority_reason"}

\* the names _find_invoice_column accepts, among the column names of the model
InvoiceColumnNames == {"Invoice #"}

-----------------------------------------------------------------------------
(* Rows and tables.  A row is a function from its keys to its values; a    *)
(* table is a sequence of rows.                                            *)

\* dict.get(key)
Get(row, key) == IF key \in DOMAIN row THEN row[key] ELSE NoneVal

\* row[key] = value
Put(row, key, value) ==
    [k \in (DOMAIN row) \cup {key} |-> IF k = key THEN value ELSE row[k]]

\* df.columns of pd.DataFrame.from_records(data)
Columns(data) == UNION {DOMAIN data[i] : i \in 1..Len(data)}

\* pd.DataFrame.from_records(data).to_dict('records'): every row carries
\* every column, NaN where the row had no such key
Records(data) ==
    IF data = <<>> THEN <<>>
    ELSE [i \in 1..Len(data) |->
            [k \in Columns(data) |->
                IF k \in DOMAIN data[i] THEN data[i][k] ELSE NaN]]

RowIds(data) == {data[i]["_row_id"] : i \in 1..Len(data)}

_check_row_completeness(fila) ==
    IF \E key \in DOMAIN fila :
          /\ ~StartsWithUnderscore(key)
          /\ str_strip(StrOf(fila[key])) \in {<<>>, <<"0">>}
    THEN Incompleto
    ELSE Completo

_find_invoice_column(data) ==
    IF \E c \in Columns(data) : c \in InvoiceColumnNames
    THEN CHOOSE c \in Columns(data) : c \in InvoiceColumnNames
    ELSE "<none>"

-----------------------------------------------------------------------------
(* Rule engine: priority_manager.apply_priority_rules and                  *)
(* app._recalculate_priorities                                             *)

\* the condition that lets a row pass when the operator is unknown or a number
\* cannot be parsed
CondMaskLenient(cond, row) ==
    LET val == str_strip(str_lower(StrOf(cond.value)))
        series_str == str_strip(str_lower(StrOf(row[cond.column])))
        nums_col == _safe_numeric_convert(row[cond.column])
        val_num == ParseNat(val)
        both == IsNumeric(val) /\ nums_col # NotANumber
    IN  CASE cond.operator = "contains" -> str_contains(series_str, val)
          [] cond.operator = "equals" -> series_str = val
          [] cond.operator = ">" -> both => nums_col > val_num
          [] cond.operator = "<" -> both => nums_col < val_num
          [] cond.operator = ">=" -> both => nums_col >= val_num
          [] cond.operator = "<=" -> both => nums_col <= val_num
          [] OTHER -> TRUE

\* one condition of a rule on one row (the column exists in the table)
CondMask(cond, row) ==
    LET val == str_strip(str_lower(StrOf(cond.value)))
        series_str == str_strip(str_lower(StrOf(row[cond.column])))
        nums_col == _safe_numeric_convert(row[cond.column])
        val_num == ParseNat(val)
        both == IsNumeric(val) /\ nums_col # NotANumber
    IN  CASE cond.operator = "contains" -> str_contains(series_str, val)
          [] cond.operator = "equals" -> series_str = val
          [] cond.operator = ">" -> both /\ nums_col > val_num
          [] cond.operator = "<" -> both /\ nums_col < val_num
          [] cond.operator = ">=" -> both /\ nums_col >= val_num
          [] cond.operator = "<=" -> both /\ nums_col <= val_num
          [] OTHER -> FALSE

\* final_mask of one rule on one row
RuleMask(rule, df, row) ==
    /\ \A j \in 1..Len(rule.conditions) : rule.conditions[j].column \in Columns(df)
    /\ \A j \in 1..Len(rule.conditions) : CondMask(rule.conditions[j], row)

\* A JSON value of the rule file that is not an object (a string, a number, null)
\* is the record NotAnObject; rules and conditions are objects otherwise.
NotAnObject == [json |-> "not an object"]
IsObject(x) == "json" \notin DOMAIN x

\* cond.get(...) raises on a condition that is not an object; the `except` of the rule
\* catches it
ConditionRaises(rule) ==
    \E j \in 1..Len(rule.conditions) : ~IsObject(rule.conditions[j])

\* rule.get('active', True), outside the try, raises on a rule that is not an object:
\* the exception leaves apply_priority_rules
RuleRaises(rs) == \E j \in 1..Len(rs) : ~IsObject(rs[j])

\* the loop with its test of the active flag left out
RuleNeverSkipped(rule) == FALSE

\* rule.get('active', True)
RuleActive(rule) == IF "active" \in DOMAIN rule THEN rule.active ELSE TRUE

\* the `if not rule.get('active', True): continue` test
RuleSkipped(rule) == ~RuleActive(rule)

\* the iteration without `if not conditions: continue`: the all-True mask of a rule
\* with no condition reaches the assignment
ApplyRuleUnconditioned(df, rule) ==
    IF RuleSkipped(rule) THEN df
    ELSE IF ConditionRaises(rule) THEN df
    ELSE [i \in 1..Len(df) |->
            IF rule.conditions = <<>> \/ RuleMask(rule, df, df[i])
            THEN Put(Put(df[i], "_priority", rule.priority),
                     "_priority_reason", rule.reason)
            ELSE df[i]]

\* one iteration of the loop over the rules
ApplyRule(df, rule) ==
    IF RuleSkipped(rule) THEN df
    ELSE IF rule.conditions = <<>> THEN df
    ELSE IF ConditionRaises(rule) THEN df
    ELSE [i \in 1..Len(df) |->
            IF RuleMask(rule, df, df[i])
            THEN Put(Put(df[i], "_priority", rule.priority),
                     "_priority_reason", rule.reason)
            ELSE df[i]]

\* the stored rules visited from the last to the first
RuleOrderReversed(rs) == [i \in 1..Len(rs) |-> rs[Len(rs) + 1 - i]]

\* the order in which the loop visits the stored rules
RuleOrder(rs) == rs

RECURSIVE ApplyRulesInOrder(_, _)
ApplyRulesInOrder(df, rs) ==
    IF rs = <<>> THEN df
    ELSE ApplyRulesInOrder(ApplyRule(df, Head(rs)), Tail(rs))

\* `if '_priority_reason' not in df.columns: df['_priority_reason'] = ""`
WithReasonColumn(df) ==
    IF "_priority_reason" \in Columns(df) THEN df
    ELSE [i \in 1..Len(df) |-> Put(df[i], "_priority_reason", <<>>)]

apply_priority_rules(df, rs) ==
    IF rs = <<>> \/ df = <<>> THEN df
    ELSE ApplyRulesInOrder(WithReasonColumn(df), RuleOrder(rs))

\* the base heuristic comparing the value as stored, without .str.strip().str.upper()
BasePriorityAsStored(row, pay_col) ==
    LET pg == StrOf(row[pay_col])
    IN  IF pg \in {TxtScf, TxtIntercompany} THEN <<Alta, ReasonScf>>
        ELSE IF str_startswith(pg, TxtPayGroup) THEN <<Baja, ReasonPayGroup>>
        ELSE <<Media, ReasonEstandar>>

\* the base heuristic on one row
BasePriority(row, pay_col) ==
    LET pg == str_upper(str_strip(StrOf(row[pay_col])))
    IN  IF pg \in {TxtScf, TxtIntercompany} THEN <<Alta, ReasonScf>>
        ELSE IF str_startswith(pg, TxtPayGroup) THEN <<Baja, ReasonPayGroup>>
        ELSE <<Media, ReasonEstandar>>

BaseHeuristic(df, st, pay_col) ==
    IF df = <<>> THEN <<>>
    ELSE IF pay_col # "<none>" /\ pay_col \in Columns(df) /\ st.enable_scf_intercompany
    THEN [i \in 1..Len(df) |->
            LET b == BasePriority(df[i], pay_col)
            IN  Put(Put(df[i], "_priority", b[1]), "_priority_reason", b[2])]
    ELSE [i \in 1..Len(df) |->
            Put(Put(df[i], "_priority", Media), "_priority_reason", ReasonDesactivada)]

\* the recompute without its first step, the base heuristic
_recalculate_priorities_rules_only(data, rs, st, pay_col) ==
    apply_priority_rules(Records(data), rs)

\* _recalculate_priorities(pd.DataFrame.from_records(data)).to_dict('records')
_recalculate_priorities(data, rs, st, pay_col) ==
    apply_priority_rules(BaseHeuristic(Records(data), st, pay_col), rs)

-----------------------------------------------------------------------------
(* History stack *)

NoEntry == [action |-> "none"]

\* the push with its length test left out
PushLimitedNoEvict(hist, entry) == Append(hist, entry)

\* history.append(entry); if len(history) > UNDO_STACK_LIMIT: history.pop(0)
PushLimited(hist, entry) ==
    IF Len(hist) + 1 > UNDO_STACK_LIMIT THEN Tail(Append(hist, entry))
    ELSE Append(hist, entry)

\* hist.append(entry), with no length test after it
PushUnlimited(hist, entry) == Append(hist, entry)

\* hist.pop(0) in the place of hist.pop()
PopIndexOldest(hist) == 1

\* last = hist.pop(): the position taken, the entry taken and the entries left
PopIndex(hist) == Len(hist)
PopEntry(hist) == hist[PopIndex(hist)]

\* hist[-1] in the place of hist.pop(): the entry is read and stays on the stack
PopRestPeek(hist) == hist

PopRest(hist) ==
    SubSeq(hist, 1, PopIndex(hist) - 1) \o SubSeq(hist, PopIndex(hist) + 1, Len(hist))

\* `if not hist: return 404`
NothingToUndo(hist) == hist = <<>>

-----------------------------------------------------------------------------
(* Route handlers.  Each takes the session keys it reads and returns the   *)
(* keys as the route leaves them, with the response.                       *)

Response(df, hist, audit, status) ==
    [df |-> df, hist |-> hist, audit |-> audit, status |-> status,
     entry |-> NoEntry, new_row_id |-> -1]

\* index of the first row whose _row_id is rid, 0 when there is none
FirstIndex(data, rid) ==
    IF rid \in RowIds(data)
    THEN SetMin({i \in 1..Len(data) : data[i]["_row_id"] = rid})
    ELSE 0

\* update_cell without the test `if old == data['valor']`
update_cell_rewrite(data, hist, audit, rid, columna, valor, rs, st, pay_col) ==
    LET i == FirstIndex(data, rid)
    IN  IF i = 0 THEN Response(data, hist, audit, "Fila no encontrada")
        ELSE LET old == Get(data[i], columna)
                 fila == Put(data[i], columna, valor)
                 fila2 == Put(fila, "_row_status", _check_row_completeness(fila))
             IN  Response(
                   _recalculate_priorities([data EXCEPT ![i] = fila2], rs, st, pay_col),
                   PushLimited(hist, [action |-> "update", row_id |-> rid,
                                      columna |-> columna, old_val |-> old,
                                      new_val |-> valor]),
                   Append(audit, [action |-> "Celda Actualizada", row_id |-> rid,
                                  columna |-> columna, valor_anterior |-> old,
                                  valor_nuevo |-> valor]),
                   "success")

update_cell(data, hist, audit, rid, columna, valor, rs, st, pay_col) ==
    LET i == FirstIndex(data, rid)
    IN  IF i = 0 THEN Response(data, hist, audit, "Fila no encontrada")
        ELSE LET old == Get(data[i], columna)
                 fila == Put(data[i], columna, valor)
                 fila2 == Put(fila, "_row_status", _check_row_completeness(fila))
                 datos == [data EXCEPT ![i] = fila2]
             IN  IF old = valor THEN Response(data, hist, audit, "no_change")
                 ELSE Response(
                        _recalculate_priorities(datos, rs, st, pay_col),
                        PushLimited(hist, [action |-> "update", row_id |-> rid,
                                           columna |-> columna, old_val |-> old,
                                           new_val |-> valor]),
                        Append(audit, [action |-> "Celda Actualizada", row_id |-> rid,
                                       columna |-> columna, valor_anterior |-> old,
                                       valor_nuevo |-> valor]),
                        "success")

\* the new id taken from the number of rows
NewRowIdByCount(data) == Len(data)

\* new_id of add_row
NewRowId(data) ==
    (IF data = <<>> THEN 0 ELSE SetMax(RowIds(data))) + 1

\* add_row that numbers the first row of an empty table 0
add_row_from_zero(data, hist, audit) ==
    LET new_id == IF data = <<>> THEN 0 ELSE SetMax(RowIds(data)) + 1
        cols == IF data = <<>> THEN {"_row_id", "_priority"} ELSE DOMAIN data[1]
        keys == cols \cup {"_row_id", "_row_status", "_priority", "_priority_reason"}
        new_row == [k \in keys |->
                      CASE k = "_row_id" -> new_id
                        [] k = "_row_status" -> Incompleto
                        [] k = "_priority" -> Media
                        [] k = "_priority_reason" -> ReasonNuevaFila
                        [] OTHER -> <<>>]
    IN  [Response(Append(data, new_row),
                  PushLimited(hist, [action |-> "add", row_id |-> new_id]),
                  audit, "success")
         EXCEPT !.new_row_id = new_id]

add_row(data, hist, audit) ==
    LET new_id == NewRowId(data)
        cols == IF data = <<>> THEN {"_row_id", "_priority"} ELSE DOMAIN data[1]
        keys == cols \cup {"_row_id", "_row_status", "_priority", "_priority_reason"}
        new_row == [k \in keys |->
                      CASE k = "_row_id" -> new_id
                        [] k = "_row_status" -> Incompleto
                        [] k = "_priority" -> Media
                        [] k = "_priority_reason" -> ReasonNuevaFila
                        [] OTHER -> <<>>]
    IN  [Response(Append(data, new_row),
                  PushLimited(hist, [action |-> "add", row_id |-> new_id]),
                  audit, "success")
         EXCEPT !.new_row_id = new_id]

\* list.pop(idx) / list.insert(idx, row), idx counted from 0
RemoveAt(data, idx) ==
    SubSeq(data, 1, idx) \o SubSeq(data, idx + 2, Len(data))

\* the insert that ignores the index and appends
InsertAtEnd(data, idx, row) == Append(data, row)

InsertAt(data, idx, row) ==
    LET k == IF idx > Len(data) THEN Len(data) ELSE idx
    IN  SubSeq(data, 1, k) \o <<row>> \o SubSeq(data, k + 1, Len(data))

delete_row(data, hist, audit, rid) ==
    LET i == FirstIndex(data, rid)
    IN  IF i = 0 THEN Response(data, hist, audit, "Fila no encontrada")
        ELSE Response(RemoveAt(data, i - 1),
                      PushLimited(hist, [action |-> "delete", deleted_row |-> data[i],
                                         original_index |-> i - 1]),
                      audit, "success")

bulk_update(data, hist, audit, target_ids, column, new_value, rs, st, pay_col) ==
    LET Hit(r) == r["_row_id"] \in target_ids /\ Get(r, column) # new_value
        changes == [i \in 1..Len(SelectSeq(data, Hit)) |->
                      [row_id |-> SelectSeq(data, Hit)[i]["_row_id"],
                       old_val |-> Get(SelectSeq(data, Hit)[i], column)]]
        datos == [i \in 1..Len(data) |->
                    IF Hit(data[i])
                    THEN LET r == Put(data[i], column, new_value)
                         IN  Put(r, "_row_status", _check_row_completeness(r))
                    ELSE data[i]]
    IN  IF SelectSeq(data, Hit) = <<>> THEN Response(data, hist, audit, "no_change")
        ELSE Response(_recalculate_priorities(datos, rs, st, pay_col),
                      PushUnlimited(hist, [action |-> "bulk_update", columna |-> column,
                                           new_val |-> new_value, changes |-> changes]),
                      audit, "success")

find_replace(data, hist, audit, target_ids, columna, find_text, replace_text, rs, st, pay_col) ==
    LET Hit(r) == r["_row_id"] \in target_ids /\ StrOf(Get(r, columna)) = StrOf(find_text)
        changes == [i \in 1..Len(SelectSeq(data, Hit)) |->
                      [row_id |-> SelectSeq(data, Hit)[i]["_row_id"],
                       old_val |-> Get(SelectSeq(data, Hit)[i], columna)]]
        datos == [i \in 1..Len(data) |->
                    IF Hit(data[i])
                    THEN LET r == Put(data[i], columna, replace_text)
                         IN  Put(r, "_row_status", _check_row_completeness(r))
                    ELSE data[i]]
    IN  IF SelectSeq(data, Hit) = <<>> THEN Response(data, hist, audit, "no_change")
        ELSE Response(_recalculate_priorities(datos, rs, st, pay_col),
                      PushUnlimited(hist, [action |-> "find_replace", columna |-> columna,
                                           new_val |-> replace_text, changes |-> changes]),
                      audit, "success")

bulk_delete(data, hist, audit, ids) ==
    LET Del(r) == r["_row_id"] \in ids
        Kept(r) == r["_row_id"] \notin ids
    IN  IF SelectSeq(data, Del) = <<>> THEN Response(data, hist, audit, "no_change")
        ELSE Response(SelectSeq(data, Kept),
                      PushUnlimited(hist, [action |-> "bulk_delete",
                                           deleted_rows |-> SelectSeq(data, Del)]),
                      audit, "success")

\* _get_df_from_session_as_df finds no data: session.clear() and an error
SessionLost == Response(<<>>, <<>>, <<>>, "session_cleared")

\* the token of a request that carries none (data.get('file_id') is None)
AbsentToken == "<absent>"

\* _check_file_id that trusts every token
_check_file_id_skip(session_file_id, request_file_id) == "ok"

\* _check_file_id: "ok", or the message of the exception it raises after session.clear()
_check_file_id(session_file_id, request_file_id) ==
    IF session_file_id = "<none>" THEN "Sesion expirada"
    ELSE IF session_file_id # request_file_id THEN "El ID del archivo no coincide"
    ELSE "ok"

\* the responses after which the session holds nothing (session.clear() ran)
SessionErrors == {"session_cleared", "Sesion expirada", "El ID del archivo no coincide"}

cleanup_duplicates(data, hist, audit) ==
    LET df == Records(data)
        col == _find_invoice_column(df)
        Dup(i) == \E j \in 1..(i - 1) : df[j][col] = df[i][col]
        deleted == [k \in 1..Cardinality({i \in 1..Len(df) : Dup(i)}) |->
                      df[CHOOSE i \in 1..Len(df) :
                            Dup(i) /\ Cardinality({j \in 1..i : Dup(j)}) = k]]
        clean == [k \in 1..Cardinality({i \in 1..Len(df) : ~Dup(i)}) |->
                      df[CHOOSE i \in 1..Len(df) :
                            ~Dup(i) /\ Cardinality({j \in 1..i : ~Dup(j)}) = k]]
    IN  IF data = <<>> THEN SessionLost
        ELSE IF col = "<none>" THEN Response(data, hist, audit, "error")
        ELSE IF \A i \in 1..Len(df) : ~Dup(i) THEN Response(data, hist, audit, "no_change")
        ELSE Response(clean,
                      PushUnlimited(hist, [action |-> "bulk_delete_duplicates",
                                           deleted_rows |-> deleted]),
                      audit, "success")

\* the row without the key col
DropKey(row, col) == [k \in (DOMAIN row) \ {col} |-> row[k]]

delete_column_route(data, hist, audit, col) ==
    LET df_old == Records(data)
        col_backup == [i \in 1..Len(df_old) |->
                         [_row_id |-> df_old[i]["_row_id"], value |-> df_old[i][col]]]
        df_new == [i \in 1..Len(df_old) |-> DropKey(df_old[i], col)]
    IN  IF data = <<>> THEN SessionLost
        ELSE IF col \notin Columns(df_old)
        THEN Response(data, hist, audit, "La columna no existe")
        ELSE Response(df_new,
                      PushUnlimited(hist, [action |-> "delete_column", columna |-> col,
                                           restore_data |-> col_backup]),
                      audit, "success")

\* list.sort(key=lambda x: int(x['_row_id'])): stable, ascending
RECURSIVE SortByRowId(_)
SortByRowId(data) ==
    IF data = <<>> THEN <<>>
    ELSE LET m == SetMin(RowIds(data))
             i == FirstIndex(data, m)
         IN  <<data[i]>> \o SortByRowId(RemoveAt(data, i - 1))

\* {c['row_id']: c['old_val'] for c in changes}: the last pair of a key wins
HasKey(pairs, rid) == \E i \in 1..Len(pairs) : pairs[i].row_id = rid
LastFor(pairs, rid) ==
    pairs[SetMax({i \in 1..Len(pairs) : pairs[i].row_id = rid})]

\* the inverse of one history entry, applied to the rows of the session
Invert(data, e) ==
    CASE e.action = "update" ->
            LET i == FirstIndex(data, e.row_id)
            IN  IF i = 0 THEN data
                ELSE LET r == Put(data[i], e.columna, e.old_val)
                     IN  [data EXCEPT ![i] = Put(r, "_row_status", _check_row_completeness(r))]
      [] e.action \in {"bulk_update", "find_replace"} ->
            [i \in 1..Len(data) |->
                IF HasKey(e.changes, data[i]["_row_id"])
                THEN Put(data[i], e.columna, LastFor(e.changes, data[i]["_row_id"]).old_val)
                ELSE data[i]]
      [] e.action = "add" ->
            LET Other(r) == r["_row_id"] # e.row_id
            IN  SelectSeq(data, Other)
      [] e.action = "delete" ->
            InsertAt(data, e.original_index, e.deleted_row)
      [] e.action \in {"bulk_delete", "bulk_delete_duplicates"} ->
            SortByRowId(data \o e.deleted_rows)
      [] e.action = "delete_column" ->
            LET pairs == [i \in 1..Len(e.restore_data) |->
                            [row_id |-> e.restore_data[i]._row_id,
                             old_val |-> e.restore_data[i].value]]
            IN  [i \in 1..Len(data) |->
                    IF HasKey(pairs, data[i]["_row_id"])
                    THEN Put(data[i], e.columna, LastFor(pairs, data[i]["_row_id"]).old_val)
                    ELSE data[i]]
      [] OTHER -> data

\* the undo that also withdraws the newest audit entry
UndoLastUnlogged(data, hist, audit, rs, st, pay_col) ==
    [Response(_recalculate_priorities(Invert(data, PopEntry(hist)), rs, st, pay_col),
              PopRest(hist), SubSeq(audit, 1, Len(audit) - 1), "success")
     EXCEPT !.entry = PopEntry(hist)]

\* undo_change from `last = hist.pop()` on
UndoLast(data, hist, audit, rs, st, pay_col) ==
    [Response(_recalculate_priorities(Invert(data, PopEntry(hist)), rs, st, pay_col),
              PopRest(hist), audit, "success")
     EXCEPT !.entry = PopEntry(hist)]

\* undo_change answering an empty history with a recompute and a success
undo_change_swallow(data, hist, audit, rs, st, pay_col) ==
    IF NothingToUndo(hist)
    THEN Response(_recalculate_priorities(data, rs, st, pay_col), hist, audit, "success")
    ELSE UndoLast(data, hist, audit, rs, st, pay_col)

undo_change(data, hist, audit, rs, st, pay_col) ==
    IF NothingToUndo(hist) THEN Response(data, hist, audit, "Nada que deshacer")
    ELSE UndoLast(data, hist, audit, rs, st, pay_col)

\* commit_changes answering without touching session['history']
commit_changes_keep(data, hist, audit) == Response(data, hist, audit, "success")

commit_changes(data, hist, audit) == Response(data, <<>>, audit, "success")

-----------------------------------------------------------------------------
(* Rule store: priority_manager.toggle_rule / save_settings *)

\* toggle_rule returning without writing the flag
toggle_rule_unwritten(rs, rule_id, active) == rs

toggle_rule(rs, rule_id, active) ==
    IF \E i \in 1..Len(rs) : rs[i].id = rule_id
    THEN LET i == SetMin({j \in 1..Len(rs) : rs[j].id = rule_id})
         IN  [rs EXCEPT ![i] = Put(rs[i], "active", active)]
    ELSE rs

\* delete_rule: `[r for r in data['rules'] if r.get('id') != rule_id]`
delete_rule(rs, rule_id) ==
    LET Kept(r) == r.id # rule_id
    IN  SelectSeq(rs, Kept)

save_settings(st, enable) == [st EXCEPT !.enable_scf_intercompany = enable]

\* str(uuid.uuid4()): an id no stored rule has
NewRuleIds == <<"u1", "u2", "u3", "u4", "u5">>
uuid4(rs) ==
    NewRuleIds[SetMin({k \in 1..Len(NewRuleIds) :
                          \A i \in 1..Len(rs) : rs[i].id # NewRuleIds[k]})]

\* save_rule taking the stored rule out and appending the edited one at the end, active
save_rule_reappended(rs, rule_data) ==
    Append(delete_rule(rs, rule_data.id), Put(rule_data, "active", TRUE))

\* save_rule; a rule_data without id carries id "" here
save_rule(rs, rule_data) ==
    IF rule_data.id = ""
    THEN Append(rs, [k \in (DOMAIN rule_data) \cup {"active"} |->
                        CASE k = "id" -> uuid4(rs)
                          [] k = "active" -> TRUE
                          [] OTHER -> rule_data[k]])
    ELSE IF \E i \in 1..Len(rs) : rs[i].id = rule_data.id
    THEN LET i == SetMin({j \in 1..Len(rs) : rs[j].id = rule_data.id})
         IN  [rs EXCEPT ![i] =
                 IF "active" \in DOMAIN rule_data THEN rule_data
                 ELSE [k \in (DOMAIN rule_data) \cup {"active"} |->
                          IF k = "active" THEN RuleActive(rs[i]) ELSE rule_data[k]]]
    ELSE Append(rs, rule_data)

\* the crear_regla_prioridad branch of procesar_mensaje_ia: the rule built from the
\* arguments of the tool call
nueva_regla(rs, args) ==
    [id |-> uuid4(rs), active |-> TRUE, priority |-> args.prioridad,
     reason |-> args.razon, conditions |-> args.condiciones]

\* the same branch from save_rule on: the table it stores in the session
agent_apply(data, rs) == Records(apply_priority_rules(Records(data), rs))

-----------------------------------------------------------------------------
(* Inputs of the requests *)

TxtScfLower == <<" ","s","c","f">>
TxtPayGroupOne == <<"p","a","y"," ","g","r","o","u","p"," ","1">>
TxtOne == <<"1">>
TxtTwo == <<"2">>
TxtX == <<"x">>

ReqRowIds == {0, 1, 9}
ReqIdSets == {{0, 1}, {1, 2}}
ReqCells == {<<"Pay Group", TxtScf>>, <<"Invoice #", <<>> >>}
ReqFinds == {<<"Pay Group", TxtX, TxtScf>>, <<"Invoice #", TxtOne, <<>> >>}
ReqDeleteColumns == {"Pay Group", "Invoice #", "_priority", "Notes"}
ReqRuleIds == {"r2"}

-----------------------------------------------------------------------------
(* Initial states *)

\* one row as cargar_datos returns it, before upload_file numbers the rows
LoaderRow(pay_group, invoice) ==
    LET r == [k \in {"Pay Group", "Invoice #"} |->
                 IF k = "Pay Group" THEN pay_group ELSE invoice]
    IN  Put(r, "_row_status", _check_row_completeness(r))

TableDup == << LoaderRow(TxtScf, TxtOne), LoaderRow(TxtX, TxtOne) >>
TableGap == << LoaderRow(TxtPayGroupOne, TxtTwo), LoaderRow(TxtScfLower, <<>>) >>

\* df.reset_index().rename(columns={'index': '_row_id'})
NumberRows(rows) == [i \in 1..Len(rows) |-> Put(rows[i], "_row_id", i - 1)]

Cond(column, operator, value) ==
    [column |-> column, operator |-> operator, value |-> value]

Rule(id, active, conditions, priority, reason) ==
    [id |-> id, active |-> active, conditions |-> conditions,
     priority |-> priority, reason |-> reason]

RuleContainsS == Rule("r1", TRUE, <<Cond("Pay Group", "contains", <<"S">>)>>, Baja, <<"rule r1">>)
RuleInvoiceGe1 == Rule("r2", TRUE, <<Cond("Invoice #", ">=", TxtOne)>>, Alta, <<"rule r2">>)

TwoRules == <<RuleContainsS, RuleInvoiceGe1>>

\* the uploads of the model: the loaded rows and the rule store at that time
Uploads == { <<TableDup, TwoRules>>, <<TableGap, <<>> >> }

DefaultSettings == [enable_scf_intercompany |-> TRUE]

\* the file_id upload_file gave the session
SessionToken == "file-1"

\* `last` after the upload: token is the file_id the request carried, target the
\* row_id or the column it named (<<"row_id", n>>, <<"columna", c>>, <<>> for neither), df0/hlen0 the table and the history length before the last
\* request, df00/hlen00 those before the request preceding it
NoRequest ==
    [op |-> "upload_file", status |-> "success", entry |-> NoEntry,
     new_row_id |-> -1, token |-> SessionToken, target |-> <<>>,
     df0 |-> <<>>, hlen0 |-> 0,
     prev_op |-> "none", prev_status |-> "none", df00 |-> <<>>, hlen00 |-> 0]

\* no second session; no request in flight
NoSession == [df |-> <<>>, hist |-> <<>>, pay_col |-> "<none>"]
NoneInFlight == [pending |-> <<>>, served |-> <<>>]

\* the session upload_file leaves, with the priorities of the loaded rows
Loaded(rows, rs) ==
    [df |-> _recalculate_priorities(NumberRows(rows), rs, DefaultSettings, "Pay Group"),
     hist |-> <<>>, audit |-> <<>>,
     loaded |-> _recalculate_priorities(NumberRows(rows), rs, DefaultSettings, "Pay Group")]

\* the session after n further update_cell requests on the cell (row 0, Invoice #),
\* each writing a value the cell does not hold; before the n-th of them the history
\* holds n - 1 entries, or UNDO_STACK_LIMIT once it is full
RECURSIVE AfterUpdates(_, _, _)
AfterUpdates(s, rs, n) ==
    IF n = 0 THEN s
    ELSE LET p == AfterUpdates(s, rs, n - 1)
             r == update_cell(p.df, p.hist, p.audit, 0, "Invoice #",
                              IF Get(p.df[1], "Invoice #") = TxtTwo THEN TxtOne ELSE TxtTwo,
                              rs, DefaultSettings, "Pay Group")
         IN  IF Len(p.hist) = n - 1 \/ Len(p.hist) = UNDO_STACK_LIMIT
             THEN [df |-> r.df, hist |-> r.hist, audit |-> r.audit, loaded |-> p.loaded]
             ELSE p

\* history lengths the deep initial states start from
DeepLengths == {UNDO_STACK_LIMIT - 1, UNDO_STACK_LIMIT}

InitSession(s, rs, n) ==
    /\ snapshot = s.loaded
    /\ other = NoSession
    /\ inflight = NoneInFlight
    /\ df_staging = s.df
    /\ history = s.hist
    /\ audit_log = s.audit
    /\ pay_group_col_name = "Pay Group"
    /\ file_id = "file-1"
    /\ rules = rs
    /\ settings = DefaultSettings
    /\ last = NoRequest
    /\ seen_ids = {}
    /\ budget = n

Init ==
    \/ \E load \in Uploads : InitSession(Loaded(load[1], load[2]), load[2], MaxOps)
    \/ \E n \in DeepLengths :
          InitSession(AfterUpdates(Loaded(TableDup, TwoRules), TwoRules, n),
                      TwoRules, MaxDeepOps)

-----------------------------------------------------------------------------
(* Requests *)

\* the route's first statement, _check_file_id(token): the route runs only when it passes
Checked(tok, resp) ==
    IF _check_file_id(file_id, tok) = "ok" THEN resp
    ELSE Response(<<>>, <<>>, <<>>, _check_file_id(file_id, tok))

\* the session keys and the response after a request
Serve(op, tok, target, resp) ==
    /\ budget > 0
    /\ budget' = budget - 1
    /\ seen_ids' = seen_ids \cup RowIds(df_staging)
    /\ last' = [op |-> op, status |-> resp.status, entry |-> resp.entry,
                new_row_id |-> resp.new_row_id, token |-> tok, target |-> target,
                df0 |-> df_staging, hlen0 |-> Len(history),
                prev_op |-> last.op, prev_status |-> last.status,
                df00 |-> last.df0, hlen00 |-> last.hlen0]
    /\ df_staging' = resp.df
    /\ history' = resp.hist
    /\ audit_log' = resp.audit
    /\ file_id' = IF resp.status \in SessionErrors THEN "<none>" ELSE file_id
    /\ pay_group_col_name' =
          IF resp.status \in SessionErrors THEN "<none>" ELSE pay_group_col_name
    /\ UNCHANGED <<snapshot, other, inflight>>

\* Each route as a request carrying the token tok; the action named after the route
\* is the request of the page that holds the session's own file_id.

UpdateCellAs(tok) ==
    \E rid \in {0, 9}, cell \in ReqCells \cup {<<"Invoice #", TxtTwo>>} :
        /\ Serve("update_cell", tok, <<"row_id", rid, cell[1], cell[2]>>,
                 Checked(tok, update_cell(df_staging, history, audit_log, rid, cell[1],
                                          cell[2], rules, settings, pay_group_col_name)))
        /\ UNCHANGED <<rules, settings>>

UpdateCell == UpdateCellAs(SessionToken)

AddRowAs(tok) ==
    /\ Serve("add_row", tok, <<>>, Checked(tok, add_row(df_staging, history, audit_log)))
    /\ UNCHANGED <<rules, settings>>

AddRow == AddRowAs(SessionToken)

DeleteRowAs(tok) ==
    \E rid \in ReqRowIds :
        /\ Serve("delete_row", tok, <<"row_id", rid>>,
                 Checked(tok, delete_row(df_staging, history, audit_log, rid)))
        /\ UNCHANGED <<rules, settings>>

DeleteRow == DeleteRowAs(SessionToken)

BulkUpdateAs(tok) ==
    \E ids \in ReqIdSets, cell \in ReqCells :
        /\ Serve("bulk_update", tok, <<"row_ids", ids>>,
                 Checked(tok, bulk_update(df_staging, history, audit_log, ids, cell[1],
                                          cell[2], rules, settings, pay_group_col_name)))
        /\ UNCHANGED <<rules, settings>>

BulkUpdate == BulkUpdateAs(SessionToken)

FindReplaceAs(tok) ==
    \E ids \in ReqIdSets, f \in ReqFinds :
        /\ Serve("find_replace", tok, <<"row_ids", ids>>,
                 Checked(tok, find_replace(df_staging, history, audit_log, ids, f[1], f[2],
                                           f[3], rules, settings, pay_group_col_name)))
        /\ UNCHANGED <<rules, settings>>

FindReplace == FindReplaceAs(SessionToken)

BulkDeleteAs(tok) ==
    \E ids \in ReqIdSets \cup {{9}} :
        /\ Serve("bulk_delete", tok, <<>>,
                 Checked(tok, bulk_delete(df_staging, history, audit_log, ids)))
        /\ UNCHANGED <<rules, settings>>

BulkDelete == BulkDeleteAs(SessionToken)

CleanupDuplicatesAs(tok) ==
    /\ Serve("cleanup_duplicates", tok, <<>>,
             Checked(tok, cleanup_duplicates(df_staging, history, audit_log)))
    /\ UNCHANGED <<rules, settings>>

CleanupDuplicates == CleanupDuplicatesAs(SessionToken)

DeleteColumnAs(tok) ==
    \E col \in ReqDeleteColumns :
        /\ Serve("delete_column", tok, <<"columna", col>>,
                 Checked(tok, delete_column_route(df_staging, history, audit_log, col)))
        /\ UNCHANGED <<rules, settings>>

DeleteColumn == DeleteColumnAs(SessionToken)

UndoChangeAs(tok) ==
    /\ Serve("undo_change", tok, <<>>,
             Checked(tok, undo_change(df_staging, history, audit_log,
                                      rules, settings, pay_group_col_name)))
    /\ UNCHANGED <<rules, settings>>

UndoChange == UndoChangeAs(SessionToken)

CommitChangesAs(tok) ==
    /\ Serve("commit_changes", tok, <<>>,
             Checked(tok, commit_changes(df_staging, history, audit_log)))
    /\ UNCHANGED <<rules, settings>>

CommitChanges == CommitChangesAs(SessionToken)

\* `if session.get('df_staging'): recalculate`, after a change of the rule store
Recomputed(rs, st) ==
    IF df_staging = <<>> THEN Response(df_staging, history, audit_log, "success")
    ELSE IF RuleRaises(rs) THEN Response(df_staging, history, audit_log, "error")
    ELSE Response(_recalculate_priorities(df_staging, rs, st, pay_group_col_name),
                  history, audit_log, "success")

\* the rule routes read no file_id from the request: tok is what the request carried
ApiToggleRuleAs(tok) ==
    \E rid \in ReqRuleIds, active \in BOOLEAN :
        /\ rules' = toggle_rule(rules, rid, active)
        /\ settings' = settings
        /\ Serve("api_toggle_rule", tok, <<>>, Recomputed(rules', settings'))

ApiToggleRule == ApiToggleRuleAs(SessionToken)

ApiSaveSettingsAs(tok) ==
    \E enable \in BOOLEAN :
        /\ settings' = save_settings(settings, enable)
        /\ rules' = rules
        /\ Serve("api_save_settings", tok, <<>>, Recomputed(rules', settings'))

ApiSaveSettings == ApiSaveSettingsAs(SessionToken)

Next ==
    \/ UpdateCell
    \/ AddRow
    \/ DeleteRow
    \/ BulkUpdate
    \/ FindReplace
    \/ BulkDelete
    \/ CleanupDuplicates
    \/ DeleteColumn
    \/ UndoChange
    \/ CommitChanges
    \/ ApiToggleRule
    \/ ApiSaveSettings

Spec == Init /\ [][Next]_vars

-----------------------------------------------------------------------------
(* The row operations alone, over more requests *)

InitRows ==
    \/ \E load \in Uploads : InitSession(Loaded(load[1], load[2]), load[2], MaxRowOps)
    \/ \E n \in DeepLengths :
          InitSession(AfterUpdates(Loaded(TableDup, TwoRules), TwoRules, n),
                      TwoRules, MaxRowOps)

NextRows ==
    \/ AddRow
    \/ DeleteRow
    \/ BulkDelete
    \/ CleanupDuplicates
    \/ UndoChange
    \/ CommitChanges

SpecRows == InitRows /\ [][NextRows]_vars

-----------------------------------------------------------------------------
(* The rule engine: uploads under several rule stores, then requests that  *)
(* change the store and recompute the priorities                           *)

TxtThousand == <<"$","1",",","0","0","0">>
TableAmounts == << LoaderRow(TxtScf, TxtThousand), LoaderRow(TxtIntercompany, TxtX) >>

RuleScfAndBelow5 ==
    Rule("r3", TRUE,
         <<Cond("Pay Group", "equals", <<" ","S","c","f">>), Cond("Invoice #", "<", <<"5">>)>>,
         Media, <<"rule r3">>)
RuleNotes == Rule("r4", TRUE, <<Cond("Notes", "contains", <<>>)>>, Baja, <<"rule r4">>)
RuleNoConditions == Rule("r5", TRUE, <<>>, Baja, <<"rule r5">>)
RuleBadValue == Rule("r6", TRUE, <<Cond("Invoice #", ">=", <<"$","1">>)>>, Baja, <<"rule r6">>)
RuleUnknownOp == Rule("r7", TRUE, <<Cond("Pay Group", "!=", TxtX)>>, Baja, <<"rule r7">>)

Inactive(rule) == [rule EXCEPT !.active = FALSE]

RuleStores ==
    { <<>>,
      <<RuleContainsS, RuleInvoiceGe1>>,
      <<RuleInvoiceGe1, RuleContainsS>>,
      <<RuleContainsS, RuleScfAndBelow5, Inactive(RuleInvoiceGe1)>>,
      <<RuleInvoiceGe1, RuleNotes, RuleNoConditions>>,
      <<RuleContainsS, RuleInvoiceGe1, RuleNotes, RuleBadValue, RuleUnknownOp>>,
      <<Inactive(RuleContainsS), Inactive(RuleInvoiceGe1)>> }

RuleTables == {TableDup, TableGap, TableAmounts}

InitRules ==
    \E rows \in RuleTables, rs \in RuleStores, pay_col \in {"Pay Group", "<none>"} :
        /\ df_staging = _recalculate_priorities(NumberRows(rows), rs, DefaultSettings, pay_col)
        /\ history = <<>>
        /\ audit_log = <<>>
        /\ pay_group_col_name = pay_col
        /\ file_id = "file-1"
        /\ rules = rs
        /\ settings = DefaultSettings
        /\ last = NoRequest
        /\ seen_ids = {}
        /\ budget = MaxRuleOps
        /\ snapshot = df_staging
        /\ other = NoSession
        /\ inflight = NoneInFlight

ToggleAnyRule ==
    \E rid \in {"r1", "r2", "r3", "r9"}, active \in BOOLEAN :
        /\ rules' = toggle_rule(rules, rid, active)
        /\ settings' = settings
        /\ Serve("api_toggle_rule", SessionToken, <<>>, Recomputed(rules', settings'))

\* the arguments the model's agent passes to crear_regla_prioridad
AgentArgs ==
    { [prioridad |-> Baja, razon |-> <<"agent rule a">>,
       condiciones |-> <<Cond("Invoice #", "<=", TxtOne)>>],
      [prioridad |-> Alta, razon |-> <<"agent rule b">>,
       condiciones |-> <<Cond("Pay Group", "contains", TxtX)>>] }

\* chat_agent_route on a message the agent answers by creating a rule
ChatAgentCreateRuleAs(tok) ==
    \E args \in AgentArgs :
        LET rs == save_rule(rules, nueva_regla(rules, args))
            resp == Checked(tok, IF df_staging = <<>> THEN SessionLost
                                 ELSE Response(agent_apply(df_staging, rs),
                                               history, audit_log, "success"))
        IN  /\ rules' = IF resp.status = "success" THEN rs ELSE rules
            /\ settings' = settings
            /\ Serve("chat_agent", tok, <<>>, resp)

ChatAgentCreateRule == ChatAgentCreateRuleAs(SessionToken)

NextRules ==
    \/ ToggleAnyRule
    \/ ApiSaveSettings
    \/ ChatAgentCreateRule

SpecRules == InitRules /\ [][NextRules]_vars

-----------------------------------------------------------------------------
(* Imported rule stores: api_import_view_rules writes the list it is given  *)
(* into the rule file, then recomputes                                      *)

RuleBadCondition ==
    Rule("r8", TRUE, <<Cond("Pay Group", "contains", <<>>), NotAnObject>>, Baja, <<"rule r8">>)

ImportedStores ==
    { <<>>,
      TwoRules,
      <<RuleBadCondition>>,
      <<RuleContainsS, RuleBadCondition, RuleInvoiceGe1>>,
      <<RuleContainsS, NotAnObject, RuleInvoiceGe1>> }

\* replace_all_rules(new_rules, new_settings)
replace_all_rules(new_rules, new_settings) == [rules |-> new_rules, settings |-> new_settings]

InitImport ==
    \E rows \in RuleTables, rs \in {<<>>, TwoRules} :
        /\ df_staging = _recalculate_priorities(NumberRows(rows), rs, DefaultSettings,
                                                "Pay Group")
        /\ history = <<>>
        /\ audit_log = <<>>
        /\ pay_group_col_name = "Pay Group"
        /\ file_id = "file-1"
        /\ rules = rs
        /\ settings = DefaultSettings
        /\ last = NoRequest
        /\ seen_ids = {}
        /\ budget = MaxImportOps
        /\ snapshot = df_staging
        /\ other = NoSession
        /\ inflight = NoneInFlight

\* api_import_view_rules: the store is replaced before the recompute, and an
\* exception of the recompute is answered with an error
ApiImportViewRules ==
    \E rs \in ImportedStores, enable \in BOOLEAN :
        LET data == replace_all_rules(rs, [enable_scf_intercompany |-> enable])
        IN  /\ rules' = data.rules
            /\ settings' = data.settings
            /\ Serve("api_import_view_rules", SessionToken, <<>>,
                     Recomputed(rules', settings'))

NextImport ==
    \/ ApiImportViewRules
    \/ ApiSaveSettings

SpecImport == InitImport /\ [][NextImport]_vars

-----------------------------------------------------------------------------
(* Requests that carry the session's file_id, another file_id, or none *)

ReqTokens == {SessionToken, "file-0", AbsentToken}

InitTokens ==
    \/ \E load \in Uploads : InitSession(Loaded(load[1], load[2]), load[2], MaxTokenOps)
    \/ InitSession(AfterUpdates(Loaded(TableDup, TwoRules), TwoRules, UNDO_STACK_LIMIT),
                   TwoRules, MaxTokenOps)

NextTokens ==
    \E tok \in ReqTokens :
        \/ UpdateCellAs(tok)
        \/ AddRowAs(tok)
        \/ DeleteRowAs(tok)
        \/ BulkUpdateAs(tok)
        \/ FindReplaceAs(tok)
        \/ BulkDeleteAs(tok)
        \/ CleanupDuplicatesAs(tok)
        \/ DeleteColumnAs(tok)
        \/ UndoChangeAs(tok)
        \/ CommitChangesAs(tok)
        \/ ApiToggleRuleAs(tok)
        \/ ApiSaveSettingsAs(tok)

SpecTokens == InitTokens /\ [][NextTokens]_vars

-----------------------------------------------------------------------------
(* Requests of one session that overlap.  A request works on the session    *)
(* keys it read (session.get) when it was received and stores its keys      *)
(* (session[...] = ...) when it responds; nothing orders two requests.      *)

ReqConcurrent ==
    { [op |-> "update_cell", row_id |-> 0, columna |-> "Invoice #", valor |-> TxtTwo],
      [op |-> "update_cell", row_id |-> 0, columna |-> "Pay Group", valor |-> TxtScf],
      [op |-> "delete_row", row_id |-> 1, columna |-> "-", valor |-> <<>>],
      [op |-> "add_row", row_id |-> -1, columna |-> "-", valor |-> <<>>] }

\* the route of request req on the session keys sess
Run(req, sess) ==
    CASE req.op = "update_cell" ->
            update_cell(sess.df, sess.hist, sess.audit, req.row_id, req.columna, req.valor,
                        rules, settings, pay_group_col_name)
      [] req.op = "delete_row" -> delete_row(sess.df, sess.hist, sess.audit, req.row_id)
      [] req.op = "add_row" -> add_row(sess.df, sess.hist, sess.audit)

InitConcurrent ==
    \E load \in Uploads : InitSession(Loaded(load[1], load[2]), load[2], MaxConcurrentOps)

\* a request arrives and reads the session keys
Receive ==
    \E req \in ReqConcurrent :
        /\ budget > 0
        /\ budget' = budget - 1
        /\ inflight' = [inflight EXCEPT !.pending =
                           Append(@, [req |-> req,
                                      sess |-> [df |-> df_staging, hist |-> history,
                                                audit |-> audit_log]])]
        /\ UNCHANGED <<df_staging, history, audit_log, pay_group_col_name, file_id,
                       rules, settings, last, seen_ids, snapshot, other>>

\* a received request runs its route on the keys it read and stores its keys
Respond ==
    \E k \in 1..Len(inflight.pending) :
        LET p == inflight.pending[k]
            resp == Checked(SessionToken, Run(p.req, p.sess))
        IN  /\ inflight' = [pending |-> SubSeq(inflight.pending, 1, k - 1)
                                          \o SubSeq(inflight.pending, k + 1,
                                                    Len(inflight.pending)),
                            served |-> Append(inflight.served, p.req)]
            /\ df_staging' = IF resp.status = "success" THEN resp.df ELSE df_staging
            /\ history' = IF resp.status = "success" THEN resp.hist ELSE history
            /\ audit_log' = IF resp.status = "success" THEN resp.audit ELSE audit_log
            /\ last' = [NoRequest EXCEPT !.op = p.req.op, !.status = resp.status]
            /\ seen_ids' = seen_ids \cup RowIds(df_staging)
            /\ UNCHANGED <<pay_group_col_name, file_id, rules, settings, budget,
                           snapshot, other>>

NextConcurrent ==
    \/ Receive
    \/ Respond

SpecConcurrent == InitConcurrent /\ [][NextConcurrent]_vars

-----------------------------------------------------------------------------
(* Two browser sessions.  Each has its own session keys; both read the rule  *)
(* store of user_priority_rules.json.                                       *)

\* both sessions loaded a file under the rule store of the upload
InitSessions ==
    \E load \in Uploads, rows \in {TableDup, TableGap} :
        /\ df_staging = Loaded(load[1], load[2]).df
        /\ history = <<>>
        /\ audit_log = <<>>
        /\ pay_group_col_name = "Pay Group"
        /\ file_id = SessionToken
        /\ rules = load[2]
        /\ settings = DefaultSettings
        /\ last = NoRequest
        /\ seen_ids = {}
        /\ budget = MaxSessionOps
        /\ snapshot = df_staging
        /\ other = [df |-> Loaded(rows, load[2]).df, hist |-> <<>>, pay_col |-> "Pay Group"]
        /\ inflight = NoneInFlight

\* a request of the second session: its keys after the response
ServeOther(resp) ==
    /\ budget > 0
    /\ budget' = budget - 1
    /\ other' = [df |-> resp.df, hist |-> resp.hist, pay_col |-> other.pay_col]
    /\ last' = [NoRequest EXCEPT !.op = "other_session", !.status = resp.status]
    /\ UNCHANGED <<df_staging, history, audit_log, pay_group_col_name, file_id,
                   rules, settings, seen_ids, snapshot, inflight>>

OtherUpdateCell ==
    \E cell \in ReqCells :
        ServeOther(update_cell(other.df, other.hist, <<>>, 0, cell[1], cell[2],
                               rules, settings, other.pay_col))

OtherUndoChange ==
    ServeOther(undo_change(other.df, other.hist, <<>>, rules, settings, other.pay_col))

NextSessions ==
    \/ UpdateCell
    \/ UndoChange
    \/ ApiToggleRule
    \/ ApiSaveSettings
    \/ ChatAgentCreateRule
    \/ OtherUpdateCell
    \/ OtherUndoChange

SpecSessions == InitSessions /\ [][NextSessions]_vars

\* the number of removed rows above which the removed rows are to be stored outside
\* the history entry
BlobThreshold == 50

TableLarge == [i \in 1..BulkRows |-> LoaderRow(TxtX, IF i % 2 = 0 THEN TxtOne ELSE TxtTwo)]

ReqBulkSizes == {1, BlobThreshold - 1, BlobThreshold, BlobThreshold + 1}

InitBulk == InitSession(Loaded(TableLarge, <<>>), <<>>, MaxBulkOps)

BulkDeleteMany ==
    \E k \in ReqBulkSizes, first \in {0, 1} :
        /\ Serve("bulk_delete", SessionToken, <<>>,
                 Checked(SessionToken,
                         bulk_delete(df_staging, history, audit_log, first..(first + k - 1))))
        /\ UNCHANGED <<rules, settings>>

NextBulk ==
    \/ BulkDeleteMany
    \/ UndoChange
    \/ CommitChanges

SpecBulk == InitBulk /\ [][NextBulk]_vars

-----------------------------------------------------------------------------
(* Mutations and undos from an empty history: every mutation route, update_cell
   also on a column the table does not have, and undo_change *)

MaxUndoOps == 4

InitUndo ==
    \E load \in Uploads : InitSession(Loaded(load[1], load[2]), load[2], MaxUndoOps)

\* POST /api/update_cell naming a column no row holds
UpdateCellNewColumn ==
    \E rid \in {0, 1} :
        /\ Serve("update_cell", SessionToken, <<"row_id", rid, "Notes", TxtX>>,
                 Checked(SessionToken,
                         update_cell(df_staging, history, audit_log, rid, "Notes",
                                     TxtX, rules, settings, pay_group_col_name)))
        /\ UNCHANGED <<rules, settings>>

NextUndo ==
    \/ UpdateCell
    \/ UpdateCellNewColumn
    \/ AddRow
    \/ DeleteRow
    \/ BulkUpdate
    \/ FindReplace
    \/ BulkDelete
    \/ CleanupDuplicates
    \/ DeleteColumn
    \/ UndoChange

SpecUndo == InitUndo /\ [][NextUndo]_vars

-----------------------------------------------------------------------------
(* The rule store routes: api_save_rule, api_toggle_rule, api_delete_rule,  *)
(* each followed by the recompute of the session's table                    *)

MaxStoreOps == 2

\* a second rule stored under the id of RuleContainsS
RuleSameId ==
    Rule("r1", TRUE, <<Cond("Invoice #", "equals", TxtOne)>>, Alta, <<"rule r1 again">>)

StoredRules ==
    { <<>>,
      TwoRules,
      <<RuleInvoiceGe1, RuleNoConditions, RuleContainsS>>,
      <<RuleContainsS, Inactive(RuleInvoiceGe1)>>,
      <<RuleContainsS, RuleInvoiceGe1, RuleSameId>> }

ReqStoreIds == {"r1", "r2", "r9"}

\* request bodies of /api/priority_rules/save: an edit that carries no active flag,
\* an edit that carries one, a rule under an id the store may not hold, a new rule
ReqRulePayloads ==
    { [id |-> "r1", conditions |-> <<Cond("Pay Group", "contains", TxtX)>>,
       priority |-> Alta, reason |-> <<"rule r1 edited">>],
      Rule("r2", FALSE, <<Cond("Invoice #", "<=", TxtOne)>>, Baja, <<"rule r2 edited">>),
      Rule("r9", TRUE, <<Cond("Pay Group", "equals", TxtX)>>, Media, <<"rule r9">>),
      [id |-> "", conditions |-> <<Cond("Invoice #", "equals", TxtTwo)>>,
       priority |-> Baja, reason |-> <<"new rule">>] }

InitStore ==
    \E rows \in {TableDup, TableAmounts}, rs \in StoredRules :
        /\ InitSession(Loaded(rows, rs), rs, MaxStoreOps)

\* the active flag of the first stored rule with the id, as the request finds it
StoredFlag(rs, rule_id) ==
    IF \A i \in 1..Len(rs) : rs[i].id # rule_id THEN "absent"
    ELSE IF RuleActive(rs[SetMin({i \in 1..Len(rs) : rs[i].id = rule_id})]) THEN "on"
    ELSE "off"

ApiSaveRule ==
    \E rule_data \in ReqRulePayloads :
        /\ rules' = save_rule(rules, rule_data)
        /\ settings' = settings
        /\ Serve("api_save_rule", SessionToken, <<"rule", rule_data>>,
                 Recomputed(rules', settings'))

ApiToggleRuleById ==
    \E rid \in ReqStoreIds, active \in BOOLEAN :
        /\ rules' = toggle_rule(rules, rid, active)
        /\ settings' = settings
        /\ Serve("api_toggle_rule", SessionToken,
                 <<"rule_id", rid, IF active THEN "on" ELSE "off", StoredFlag(rules, rid)>>,
                 Recomputed(rules', settings'))

ApiDeleteRule ==
    \E rid \in ReqStoreIds :
        /\ rules' = delete_rule(rules, rid)
        /\ settings' = settings
        /\ Serve("api_delete_rule", SessionToken, <<"rule_id", rid>>,
                 Recomputed(rules', settings'))

NextStore ==
    \/ ApiSaveRule
    \/ ApiToggleRuleById
    \/ ApiDeleteRule

SpecStore == InitStore /\ [][NextStore]_vars

-----------------------------------------------------------------------------
(* Properties *)

Served(op) == last.op = op /\ last.status = "success"

\* C1: after any sequence of mutations, undo and commit the history stack holds at
\* most UNDO_STACK_LIMIT entries.
C1_HistoryWithinLimit == Len(history) <= UNDO_STACK_LIMIT

\* C2: add_row never assigns a row_id that a row of an earlier table of the session held.
C2_RowIdNeverReused == Served("add_row") => last.new_row_id \notin seen_ids

\* C3: no two rows of the working table have the same row_id.
C3_UniqueRowIds ==
    \A i, j \in 1..Len(df_staging) :
        i # j => df_staging[i]["_row_id"] # df_staging[j]["_row_id"]

\* C3 witness: a deleted row came back by undo right after the undo of an add_row,
\* next to another row.
C3_Witness ==
    /\ Served("undo_change")
    /\ last.entry.action \in {"delete", "bulk_delete", "bulk_delete_duplicates"}
    /\ last.prev_op = "undo_change"
    /\ Len(df_staging) >= 2

\* C4: every row of the working table has its priority set, to one of Alta/Media/Baja.
C4_PriorityAlwaysSet ==
    \A i \in 1..Len(df_staging) :
        /\ "_priority" \in DOMAIN df_staging[i]
        /\ df_staging[i]["_priority"] \in PriorityLabels

\* C5: delete_row followed immediately by undo leaves the table equal to the table
\* before the delete: same rows, same order, same value in every field.
C5_DeleteUndoRestoresTable ==
    (/\ Served("undo_change")
     /\ last.prev_op = "delete_row"
     /\ last.prev_status = "success")
    => df_staging = last.df00

\* the cell (rid, col) of a table, None when the row has no such key
CellOf(data, rid, col) == Get(data[FirstIndex(data, rid)], col)

\* an update_cell that changed a cell, followed immediately by its undo
UpdateThenUndo ==
    /\ Served("undo_change")
    /\ last.prev_op = "update_cell"
    /\ last.prev_status = "success"

\* C6 as stated: update_cell followed immediately by undo restores the cell and leaves
\* the history stack with the length it had before the update, for every history
\* length from 0 to UNDO_STACK_LIMIT.
C6_UpdateUndoSameLength ==
    UpdateThenUndo =>
        /\ CellOf(df_staging, last.entry.row_id, last.entry.columna)
              = CellOf(last.df00, last.entry.row_id, last.entry.columna)
        /\ Len(history) = last.hlen00

\* C6 amended: update_cell on an existing cell followed immediately by undo restores
\* the cell; the history has the length it had before the update when that was below
\* UNDO_STACK_LIMIT, and one entry less when it was not (the push evicted the oldest).
C6_UpdateUndoLength ==
    (/\ UpdateThenUndo
     /\ last.entry.columna
           \in DOMAIN last.df00[FirstIndex(last.df00, last.entry.row_id)])
    => /\ CellOf(df_staging, last.entry.row_id, last.entry.columna)
             = CellOf(last.df00, last.entry.row_id, last.entry.columna)
       /\ Len(history) = IF last.hlen00 < UNDO_STACK_LIMIT
                         THEN last.hlen00
                         ELSE last.hlen00 - 1

\* C6 witness: the update met a full history stack.
C6_Witness ==
    /\ UpdateThenUndo
    /\ last.hlen00 = UNDO_STACK_LIMIT
    /\ last.entry.columna
          \in DOMAIN last.df00[FirstIndex(last.df00, last.entry.row_id)]

\* C7: undo on an empty history stack of a live session answers "nothing to undo"
\* and leaves the table, the history stack and the audit log as they were.
C7_UndoOnEmptyHistory ==
    [][(/\ budget' # budget
        /\ last'.op = "undo_change"
        /\ file_id # "<none>"
        /\ history = <<>>)
       => (/\ last'.status = "Nada que deshacer"
           /\ df_staging' = df_staging
           /\ history' = history
           /\ audit_log' = audit_log)]_vars

\* C7 witness: an undo was answered "nothing to undo" on a table whose stored
\* priorities a recompute would change.
C7_Witness ==
    /\ last.op = "undo_change"
    /\ last.status = "Nada que deshacer"
    /\ df_staging # <<>>
    /\ df_staging # _recalculate_priorities(df_staging, rules, settings, pay_group_col_name)

\* C8: undo removes and inverts the most recently pushed entry still on the stack and
\* leaves the earlier entries in their push order; every other request leaves the
\* stack alone, empties it, or pushes one entry on top (dropping at most the oldest).
C8_UndoIsLifo ==
    [][(budget' # budget) =>
          IF last'.op = "undo_change" /\ last'.status = "success"
          THEN /\ history # <<>>
               /\ last'.entry = history[Len(history)]
               /\ history' = SubSeq(history, 1, Len(history) - 1)
               /\ df_staging' = _recalculate_priorities(
                                    Invert(df_staging, history[Len(history)]),
                                    rules, settings, pay_group_col_name)
          ELSE \/ history' = history
               \/ history' = <<>>
               \/ /\ history' # <<>>
                  /\ \/ SubSeq(history', 1, Len(history') - 1) = history
                     \/ /\ history # <<>>
                        /\ SubSeq(history', 1, Len(history') - 1) = Tail(history)]_vars

\* C8 witness: an undo took the newest of several entries of different kinds.
C8_Witness ==
    /\ Served("undo_change")
    /\ Len(history) >= 2
    /\ last.entry.action # history[1].action

\* the request recomputed the priorities of a non-empty table
JustRecomputed ==
    /\ last.op \in {"api_toggle_rule", "api_save_settings"}
    /\ df_staging # <<>>

\* the positions of the active stored rules whose conditions all hold on the row
MatchingRules(row) ==
    {j \in 1..Len(rules) :
        /\ rules[j].active
        /\ rules[j].conditions # <<>>
        /\ \A k \in 1..Len(rules[j].conditions) :
              /\ rules[j].conditions[k].column \in DOMAIN row
              /\ CondMask(rules[j].conditions[k], row)}

Conflicting(row) ==
    \E j, k \in MatchingRules(row) : rules[j].priority # rules[k].priority

\* C9: when two or more active rules match a row with different priorities, the row's
\* priority and reason after a recompute are those of the matching rule stored last.
C9_LastMatchWins ==
    JustRecomputed =>
        \A i \in 1..Len(df_staging) :
            Conflicting(df_staging[i]) =>
                LET w == rules[SetMax(MatchingRules(df_staging[i]))]
                IN  /\ df_staging[i]["_priority"] = w.priority
                    /\ df_staging[i]["_priority_reason"] = w.reason

\* C9 witness: after a recompute a row is matched by a rule giving Alta and, later in
\* the store, by a rule giving Baja.
C9_Witness ==
    /\ JustRecomputed
    /\ \E i \in 1..Len(df_staging) :
          /\ Conflicting(df_staging[i])
          /\ rules[SetMax(MatchingRules(df_staging[i]))].priority = Baja
          /\ rules[SetMin(MatchingRules(df_staging[i]))].priority = Alta

NoActiveRule == \A j \in 1..Len(rules) : ~rules[j].active

\* C10: with no active rule in the store a recompute leaves every row with exactly the
\* priority and reason of the base heuristic.
C10_NoActiveRuleIsBase ==
    (JustRecomputed /\ NoActiveRule) =>
        \A i \in 1..Len(df_staging) :
            LET base == IF /\ pay_group_col_name # "<none>"
                           /\ pay_group_col_name \in DOMAIN df_staging[i]
                           /\ settings.enable_scf_intercompany
                        THEN BasePriority(df_staging[i], pay_group_col_name)
                        ELSE <<Media, ReasonDesactivada>>
            IN  /\ df_staging[i]["_priority"] = base[1]
                /\ df_staging[i]["_priority_reason"] = base[2]

\* C10 witness: a recompute ran over a store whose rules are all inactive, one of
\* which would have changed a row.
C10_Witness ==
    /\ JustRecomputed
    /\ NoActiveRule
    /\ rules # <<>>
    /\ df_staging # apply_priority_rules(df_staging,
                        [j \in 1..Len(rules) |-> [rules[j] EXCEPT !.active = TRUE]])

\* the routes that change rows or columns of the table
MutationOps ==
    {"update_cell", "add_row", "delete_row", "bulk_update", "find_replace",
     "bulk_delete", "cleanup_duplicates", "delete_column"}

\* C12: after every mutation that is not a no-op and after every undo, the priority and
\* reason stored for each row are those a full recompute yields for the resulting table
\* under the current rules and settings.
C12_StoredEqualsRecompute ==
    (last.op \in MutationOps \cup {"undo_change"} /\ last.status = "success")
    => df_staging = _recalculate_priorities(df_staging, rules, settings, pay_group_col_name)

\* the request of the step names a row_id or a column that the table does not hold
NamesMissing(op, target, data) ==
    \/ /\ op \in {"update_cell", "delete_row"}
       /\ target[2] \notin RowIds(data)
    \/ /\ op = "delete_column"
       /\ target[2] \notin Columns(data)

\* C13: update_cell or delete_row naming a row_id that is not in the table, and
\* delete_column naming a column that is not in the table, answer with an error and
\* leave the table, the history stack and the audit log as they were.
C13_MissingTargetIsNoOp ==
    [][(/\ budget' # budget
        /\ last'.token = file_id
        /\ NamesMissing(last'.op, last'.target, df_staging))
       => (/\ last'.status \notin {"success", "no_change"}
           /\ df_staging' = df_staging
           /\ history' = history
           /\ audit_log' = audit_log)]_vars

\* C19: commit empties the history stack whatever it holds and leaves the table as it
\* was; an undo sent right after a commit answers "nothing to undo" and changes nothing.
C19_CommitEmptiesHistory ==
    /\ Served("commit_changes") => (history = <<>> /\ df_staging = last.df0)
    /\ (/\ last.op = "undo_change"
        /\ last.prev_op = "commit_changes"
        /\ last.prev_status = "success")
       => (/\ last.status = "Nada que deshacer"
           /\ history = <<>>
           /\ df_staging = last.df0)

\* C19 witness: an undo followed a commit that met a full history stack.
C19_Witness ==
    /\ last.op = "undo_change"
    /\ last.prev_op = "commit_changes"
    /\ last.prev_status = "success"
    /\ last.hlen00 >= UNDO_STACK_LIMIT
    /\ df_staging # <<>>

\* the routes whose first statement is _check_file_id
CheckedRoutes == MutationOps \cup {"undo_change", "commit_changes"}

\* the routes that change the rule store and recompute the table
RuleRoutes == {"api_toggle_rule", "api_save_settings"}

\* the step serves a request whose file_id is absent or is not the session's
BadTokenStep == budget' # budget /\ last'.token # file_id

\* C14 as stated: a request whose file_id is absent or does not match the session's
\* file_id is rejected with an error, and the session's table and history are exactly
\* as before the call.
C14_BadTokenLeavesSession ==
    [][(BadTokenStep /\ last'.op \in CheckedRoutes)
       => (/\ last'.status \in SessionErrors
           /\ df_staging' = df_staging
           /\ history' = history)]_vars

\* C14 amended: such a request, sent to a route that verifies the file_id, is rejected
\* with an error before the route does anything, and the session is cleared: table,
\* history, audit log and file_id are gone; the rule store is as before.
C14_BadTokenClearsSession ==
    [][(BadTokenStep /\ last'.op \in CheckedRoutes)
       => (/\ last'.status \in {"Sesion expirada", "El ID del archivo no coincide"}
           /\ last'.entry = NoEntry
           /\ last'.new_row_id = -1
           /\ df_staging' = <<>>
           /\ history' = <<>>
           /\ audit_log' = <<>>
           /\ file_id' = "<none>"
           /\ rules' = rules
           /\ settings' = settings)]_vars

\* C14 witness: a request without file_id was rejected by a session that held rows,
\* history entries and an audit log.
C14_Witness ==
    /\ last.token = AbsentToken
    /\ last.op \in CheckedRoutes
    /\ last.status = "El ID del archivo no coincide"
    /\ last.df0 # <<>>
    /\ last.hlen0 > 0
    /\ df_staging = <<>>

\* C15: every entry point that can change the table verifies the caller's file_id
\* first, so a request without a matching file_id is rejected and changes nothing of
\* the table; stated here for the rule and settings routes, which recompute the table.
C15_RuleRoutesVerifyToken ==
    [][(BadTokenStep /\ last'.op \in RuleRoutes)
       => (/\ last'.status \in SessionErrors
           /\ df_staging' = df_staging)]_vars

\* rehydrate of the recovery store: the snapshot with its row_ids assigned 0..n-1 in
\* row order, as upload_file assigns them
rehydrate(snap) == NumberRows(snap)

\* C20: when the table is absent from a session that still holds its file_id, the
\* next request restores the table from the snapshot taken at load (row_ids 0..n-1)
\* and proceeds on it: the session keeps its file_id, the caller gets no session
\* error, and delete_column and cleanup_duplicates answer as on the restored table.
C20_AbsentTableRehydrated ==
    [][(/\ budget' # budget
        /\ df_staging = <<>>
        /\ file_id # "<none>"
        /\ last'.token = file_id
        /\ last'.op \in CheckedRoutes)
       => (/\ file_id' = file_id
           /\ last'.status \notin SessionErrors
           /\ last'.op = "delete_column" =>
                 df_staging' = delete_column_route(rehydrate(snapshot), history, audit_log,
                                                   last'.target[2]).df
           /\ last'.op = "cleanup_duplicates" =>
                 df_staging' = cleanup_duplicates(rehydrate(snapshot), history,
                                                  audit_log).df)]_vars

\* the table with the same stored priority and reason written into every row
WithStored(data, p, r) ==
    [i \in 1..Len(data) |-> Put(Put(data[i], "_priority", p), "_priority_reason", r)]

\* C11: the priorities a rule-applying path stores depend only on the non-priority
\* fields of the table, the rules and the settings: the path gives the same table when
\* the rows held any other priority and reason before it, both for the recompute of
\* the rule and settings routes and for the rule application of the agent.
C11_PriorityIsPure ==
    \A p \in PriorityLabels :
        /\ (last.op \in RuleRoutes /\ last.df0 # <<>>)
           => df_staging = _recalculate_priorities(WithStored(last.df0, p, ReasonNuevaFila),
                                                   rules, settings, pay_group_col_name)
        /\ (last.op = "chat_agent" /\ last.status = "success")
           => df_staging = agent_apply(WithStored(last.df0, p, ReasonNuevaFila), rules)

\* the history entry holds the n rows it removed itself
StoredInline(e, n) == "deleted_rows" \in DOMAIN e /\ Len(e.deleted_rows) = n

\* C18: a bulk_delete that removes more rows than the threshold (51 of threshold 50)
\* leaves a history entry that refers to the removed rows by a handle into external
\* storage, and one that removes fewer (49) leaves an entry holding the rows inline.
C18_LargeBulkDeleteStoredExternally ==
    Served("bulk_delete") =>
        LET e == history[Len(history)]
            n == Len(last.df0) - Len(df_staging)
        IN  /\ n > BlobThreshold => (~StoredInline(e, n) /\ "handle" \in DOMAIN e)
            /\ n < BlobThreshold => StoredInline(e, n)

\* C17: a request of one session, the rule and settings routes included, leaves the
\* table and the history of the other session as they were, and leaves unchanged the
\* priorities a recompute of the other session's table produces.
C17_SessionsIndependent ==
    [][(budget' # budget /\ last'.op # "other_session")
       => (/\ other' = other
           /\ _recalculate_priorities(other.df, rules', settings', other.pay_col)
                 = _recalculate_priorities(other.df, rules, settings, other.pay_col))]_vars

\* request a and then request b, each run to its response, from the loaded session
Serial(a, b) ==
    LET r1 == Run(a, [df |-> snapshot, hist |-> <<>>, audit |-> <<>>])
    IN  Run(b, [df |-> r1.df, hist |-> r1.hist, audit |-> r1.audit])

\* C16: when two requests were sent to one session and both have responded, the table
\* and the history are those of one of the two serial orders of the two requests.
C16_RequestsSerializable ==
    (Len(inflight.served) = 2 /\ inflight.pending = <<>>)
    => LET a == inflight.served[1]
           b == inflight.served[2]
       IN  \/ (df_staging = Serial(a, b).df /\ history = Serial(a, b).hist)
           \/ (df_staging = Serial(b, a).df /\ history = Serial(b, a).hist)

\* C21: a successful push onto a history of UNDO_STACK_LIMIT entries removes exactly
\* the oldest entry and keeps the later ones in push order, whichever mutation pushes.
C21_PushEvictsOldest ==
    [][(/\ budget' # budget
        /\ last'.op \in MutationOps
        /\ last'.status = "success"
        /\ Len(history) = UNDO_STACK_LIMIT)
       => (/\ Len(history') = UNDO_STACK_LIMIT
           /\ SubSeq(history', 1, UNDO_STACK_LIMIT - 1) = Tail(history))]_vars

\* an update_cell request of the session's own page that names a row of the table and
\* carries the value the cell holds
EqualValueStep ==
    /\ budget' # budget
    /\ last'.op = "update_cell"
    /\ file_id # "<none>"
    /\ last'.token = file_id
    /\ last'.target[2] \in RowIds(df_staging)
    /\ CellOf(df_staging, last'.target[2], last'.target[3]) = last'.target[4]

\* C22: update_cell with a value equal to the cell's current value answers no_change
\* and writes nothing: table, history and audit log stay as they were.
C22_EqualValueWritesNothing ==
    [][EqualValueStep
       => (/\ last'.status = "no_change"
           /\ df_staging' = df_staging
           /\ history' = history
           /\ audit_log' = audit_log
           /\ file_id' = file_id)]_vars

\* the no-change answer was given on a session with history and audit entries
C22_Witness ==
    /\ last.op = "update_cell"
    /\ last.status = "no_change"
    /\ last.target[2] \in RowIds(last.df0)
    /\ CellOf(last.df0, last.target[2], last.target[3]) = last.target[4]
    /\ history # <<>>
    /\ audit_log # <<>>

\* the row add_row appended, as the claim describes it: the id id, empty data fields,
\* status Incompleto and priority Media
IsFreshRow(row, id) ==
    /\ row["_row_id"] = id
    /\ row["_row_status"] = Incompleto
    /\ row["_priority"] = Media
    /\ \A k \in DOMAIN row : ~StartsWithUnderscore(k) => row[k] = <<>>

\* C23: add_row gives the new row the id max(existing ids) + 1, or 0 on an empty
\* table, appends it as the last row with empty values, status Incompleto and
\* priority Media, and changes no existing row.
C23_AddRowAppendsFreshRow ==
    Served("add_row") =>
        /\ Len(df_staging) = Len(last.df0) + 1
        /\ SubSeq(df_staging, 1, Len(last.df0)) = last.df0
        /\ IsFreshRow(df_staging[Len(df_staging)],
                      IF last.df0 = <<>> THEN 0 ELSE SetMax(RowIds(last.df0)) + 1)

\* C23 as the code has it: the id is max(existing ids) + 1 with the maximum of an
\* empty table taken as 0, so the first row of an empty table gets the id 1; the row
\* is appended last with empty values, status Incompleto and priority Media, and no
\* existing row changes.
C23_AddRowAppendsRowFromOne ==
    Served("add_row") =>
        /\ Len(df_staging) = Len(last.df0) + 1
        /\ SubSeq(df_staging, 1, Len(last.df0)) = last.df0
        /\ IsFreshRow(df_staging[Len(df_staging)],
                      IF last.df0 = <<>> THEN 1 ELSE SetMax(RowIds(last.df0)) + 1)

\* add_row served on a table that the requests before it had emptied
C23_Witness ==
    /\ Served("add_row")
    /\ last.df0 = <<>>
    /\ last.prev_status = "success"
    /\ Len(df_staging) = 1

\* the rows of data whose id is in ids and whose cell in column col is not what the
\* same row holds in after, as history records: row_id and the value in data
ChangedRows(data, after, ids, col) ==
    LET Changed(i) == /\ data[i]["_row_id"] \in ids
                      /\ Get(data[i], col) # Get(after[i], col)
        n == Cardinality({i \in 1..Len(data) : Changed(i)})
    IN  [k \in 1..n |->
           LET i == CHOOSE i \in 1..Len(data) :
                       Changed(i) /\ Cardinality({j \in 1..i : Changed(j)}) = k
           IN  [row_id |-> data[i]["_row_id"], old_val |-> Get(data[i], col)]]

\* C24: bulk_update and find_replace touch only rows whose row_id is in the requested
\* set, record in the history entry exactly the rows they changed with the old values,
\* and when no row changes push nothing and leave the table as it was.
C24_BulkEditTouchesOnlyTargets ==
    last.op \in {"bulk_update", "find_replace"} =>
        /\ last.status = "no_change" =>
              (df_staging = last.df0 /\ Len(history) = last.hlen0)
        /\ last.status = "success" =>
              /\ Len(df_staging) = Len(last.df0)
              /\ \A i \in 1..Len(last.df0) :
                    last.df0[i]["_row_id"] \notin last.target[2]
                       => df_staging[i] = last.df0[i]
              /\ Len(history) > 0
              /\ LET entry == history[Len(history)]
                 IN  /\ entry.action = last.op
                     /\ entry.changes # <<>>
                     /\ entry.changes = ChangedRows(last.df0, df_staging,
                                                    last.target[2], entry.columna)

\* C25: bulk_delete followed immediately by undo reinserts all the removed rows and
\* gives a table with the same rows in the same order as before the bulk_delete.
C25_BulkDeleteUndoRestoresTable ==
    (/\ Served("undo_change")
     /\ last.prev_op = "bulk_delete"
     /\ last.prev_status = "success")
    => df_staging = last.df00

\* C26: delete_column on an existing column removes it from every row, and an
\* immediately following undo gives every row the value it held in that column before
\* the deletion and leaves all other columns and all row statuses as they were.
C26_DeleteColumnUndoRestores ==
    /\ Served("delete_column") =>
          \A i \in 1..Len(df_staging) : last.target[2] \notin DOMAIN df_staging[i]
    /\ (/\ Served("undo_change")
        /\ last.prev_op = "delete_column"
        /\ last.prev_status = "success")
       => /\ Len(df_staging) = Len(last.df00)
          /\ \A i \in 1..Len(last.df00) :
                \A k \in (DOMAIN df_staging[i]) \cup (DOMAIN last.df00[i]) :
                    Get(df_staging[i], k) = Get(last.df00[i], k)

\* the rows of data at the indices in S, in table order
Pick(data, S) ==
    [k \in 1..Cardinality(S) |->
        data[CHOOSE i \in S : Cardinality({j \in S : j <= i}) = k]]

\* the indices of the rows that repeat the key value of an earlier row
LaterDuplicates(data, col) ==
    {i \in 1..Len(data) : \E j \in 1..(i - 1) : Get(data[j], col) = Get(data[i], col)}

\* C27: cleanup_duplicates keeps, for each value of the key column, exactly the first
\* row carrying it, removes every later row with that value, pushes one history entry
\* holding the removed rows, and an immediately following undo restores the
\* pre-cleanup table; when there is no duplicate it changes nothing and pushes nothing.
C27_CleanupKeepsFirstAndUndoes ==
    LET col == _find_invoice_column(last.df0)
        dup == LaterDuplicates(last.df0, col)
    IN  /\ Served("cleanup_duplicates") =>
              /\ dup # {}
              /\ df_staging = Pick(last.df0, (1..Len(last.df0)) \ dup)
              /\ Len(history) = last.hlen0 + 1
              /\ history[Len(history)].deleted_rows = Pick(last.df0, dup)
        /\ (last.op = "cleanup_duplicates" /\ last.status = "no_change") =>
              (dup = {} /\ df_staging = last.df0 /\ Len(history) = last.hlen0)
        /\ (/\ Served("undo_change")
            /\ last.prev_op = "cleanup_duplicates"
            /\ last.prev_status = "success")
           => df_staging = last.df00

\* a row none of whose non-reserved fields is empty
NoEmptyField(row) ==
    \A k \in DOMAIN row : ~StartsWithUnderscore(k) => str_strip(StrOf(row[k])) # <<>>

\* C28: in every reachable state each row's _row_status is Completo exactly when none
\* of its non-reserved fields is empty, and Incompleto otherwise.
C28_RowStatusIsDerived ==
    \A i \in 1..Len(df_staging) :
        /\ "_row_status" \in DOMAIN df_staging[i]
        /\ df_staging[i]["_row_status"] =
              IF NoEmptyField(df_staging[i]) THEN Completo ELSE Incompleto

NumericOperators == {">", "<", ">=", "<="}
KnownOperators == {"contains", "equals"} \cup NumericOperators

\* the ways a condition fails closed on a row of the table data
ColumnAbsent(cond, data) == cond.column \notin Columns(data)
RuleValueUnparsable(cond) ==
    /\ cond.operator \in NumericOperators
    /\ ~IsNumeric(str_strip(str_lower(StrOf(cond.value))))
CellUnparsable(cond, row) ==
    /\ cond.operator \in NumericOperators
    /\ cond.column \in DOMAIN row
    /\ _safe_numeric_convert(row[cond.column]) = NotANumber
UnknownOperator(cond) == cond.operator \notin KnownOperators

FailsClosed(rule, data, row) ==
    \E j \in 1..Len(rule.conditions) :
        LET cond == rule.conditions[j]
        IN  \/ ColumnAbsent(cond, data)
            \/ RuleValueUnparsable(cond)
            \/ CellUnparsable(cond, row)
            \/ UnknownOperator(cond)

\* a request that evaluated the stored rules on a table
RulesEvaluated ==
    /\ last.op \in {"api_toggle_rule", "api_save_settings", "chat_agent"}
    /\ df_staging # <<>>

\* C30: rule conditions are fail-closed: a condition on a column the table lacks, a
\* numeric comparison whose rule value or cell value is not a number, and a condition
\* with an unknown operator each make the row fail the condition, so the rule does not
\* set that row's priority, and the request still answers with success.
C30_ConditionsFailClosed ==
    RulesEvaluated =>
        /\ last.status = "success"
        /\ \A i \in 1..Len(df_staging), j \in 1..Len(rules) :
              (rules[j].active /\ FailsClosed(rules[j], df_staging, df_staging[i]))
                 => df_staging[i]["_priority_reason"] # rules[j].reason

\* a recompute under active rules that fail closed in each of the four ways, on a
\* table where an earlier rule decided a row
C30_Witness ==
    /\ RulesEvaluated
    /\ \E j \in 1..Len(rules) : \E k \in 1..Len(rules[j].conditions) :
          rules[j].active /\ ColumnAbsent(rules[j].conditions[k], df_staging)
    /\ \E j \in 1..Len(rules) : \E k \in 1..Len(rules[j].conditions) :
          rules[j].active /\ RuleValueUnparsable(rules[j].conditions[k])
    /\ \E j \in 1..Len(rules) : \E k \in 1..Len(rules[j].conditions) :
          rules[j].active /\ UnknownOperator(rules[j].conditions[k])
    /\ \E j \in 1..Len(rules) : \E k \in 1..Len(rules[j].conditions) :
          /\ rules[j].active
          /\ \E i \in 1..Len(df_staging) :
                CellUnparsable(rules[j].conditions[k], df_staging[i])
    /\ \E i \in 1..Len(df_staging) : df_staging[i]["_priority_reason"] = <<"rule r2">>

\* a request that ended with _recalculate_priorities over a table
RecomputeRan ==
    /\ last.status = "success"
    /\ last.op \in {"update_cell", "bulk_update", "find_replace", "undo_change",
                    "api_toggle_rule", "api_save_settings"}
    /\ df_staging # <<>>

\* the grouping value of a row, trimmed and in lower case
GroupingValue(row) == str_lower(str_strip(StrOf(row[pay_group_col_name])))

\* C31: with the base heuristic enabled and the grouping column in the table, a row no
\* rule decides is Alta when its trimmed, case-insensitive grouping value is SCF or
\* INTERCOMPANY, Baja when it starts with PAY GROUP and Media otherwise; with the
\* heuristic disabled or the grouping column not in the table it is Media with the
\* inactive reason.
C31_BasePriority ==
    RecomputeRan =>
        \A i \in 1..Len(df_staging) :
            MatchingRules(df_staging[i]) = {} =>
                LET row == df_staging[i]
                    active == /\ settings.enable_scf_intercompany
                              /\ pay_group_col_name \in Columns(df_staging)
                IN  /\ row["_priority"] =
                          IF ~active THEN Media
                          ELSE IF GroupingValue(row) \in {str_lower(TxtScf),
                                                          str_lower(TxtIntercompany)}
                          THEN Alta
                          ELSE IF str_startswith(GroupingValue(row), str_lower(TxtPayGroup))
                          THEN Baja
                          ELSE Media
                    /\ ~active => row["_priority_reason"] = ReasonDesactivada
                    /\ active => row["_priority_reason"] # ReasonDesactivada

\* a recompute right after delete_column removed the grouping column, on a table
\* that held an Alta and a Baja row
C31_Witness ==
    /\ RecomputeRan
    /\ last.prev_op = "delete_column"
    /\ last.prev_status = "success"
    /\ pay_group_col_name = "Pay Group"
    /\ "Pay Group" \notin Columns(df_staging)
    /\ \E i \in 1..Len(last.df00) : last.df00[i]["_priority"] = Alta
    /\ \A i \in 1..Len(df_staging) : df_staging[i]["_priority_reason"] = ReasonDesactivada

\* a request that did nothing but recompute the priorities of a table
PureRecompute ==
    /\ last.op \in {"api_toggle_rule", "api_save_settings"}
    /\ last.status = "success"
    /\ last.df0 # <<>>

\* C32: a priority recompute changes only _priority and _priority_reason: the number
\* of rows, their order, their row ids, their row status and every other column value
\* are as before, and both fields are populated for every row afterwards.
C32_RecomputeFrame ==
    PureRecompute =>
        /\ Len(df_staging) = Len(last.df0)
        /\ \A i \in 1..Len(last.df0) :
              /\ \A k \in ((DOMAIN df_staging[i]) \cup (DOMAIN last.df0[i]))
                             \ {"_priority", "_priority_reason"} :
                     Get(df_staging[i], k) = Get(last.df0[i], k)
              /\ "_priority" \in DOMAIN df_staging[i]
              /\ df_staging[i]["_priority"] \in PriorityLabels
              /\ "_priority_reason" \in DOMAIN df_staging[i]
              /\ df_staging[i]["_priority_reason"] \notin {<<>>, NaN, NoneVal}

\* a recompute of a table whose _priority column had been deleted, that changed the
\* reason of a row
C32_Witness ==
    /\ PureRecompute
    /\ \A i \in 1..Len(last.df0) : "_priority" \notin DOMAIN last.df0[i]
    /\ \E i \in 1..Len(last.df0) :
          df_staging[i]["_priority_reason"] # last.df0[i]["_priority_reason"]

\* a rule whose evaluation raises no exception
WellFormed(rule) == IsObject(rule) /\ ~ConditionRaises(rule)

\* a recompute under a store that holds a malformed rule
RecomputedWithMalformedRule ==
    /\ last.op \in {"api_import_view_rules", "api_save_settings"}
    /\ last.df0 # <<>>
    /\ \E j \in 1..Len(rules) : ~WellFormed(rules[j])

\* C33: when the evaluation of a rule fails, that rule changes no row and every other
\* active rule is still applied in stored order: the recompute completes and gives the
\* table it gives with the failing rules taken out of the store.
C33_RuleErrorsIsolated ==
    RecomputedWithMalformedRule =>
        /\ last.status = "success"
        /\ df_staging = _recalculate_priorities(last.df0, SelectSeq(rules, WellFormed),
                                                settings, pay_group_col_name)

\* the row ids of a table, in table order
IdsInOrder(data) == [i \in 1..Len(data) |-> data[i]["_row_id"]]

\* C34: in every reachable state the rows of the working table are in strictly
\* ascending row_id order, and the sort in the undo of a bulk delete leaves the rows
\* that were not part of that bulk delete in the order they had.
C34_RowsAscending ==
    /\ \A i \in 1..(Len(df_staging) - 1) :
          df_staging[i]["_row_id"] < df_staging[i + 1]["_row_id"]
    /\ (/\ Served("undo_change")
        /\ last.entry.action \in {"bulk_delete", "bulk_delete_duplicates"})
       => LET Stayed(r) == r["_row_id"] \in RowIds(last.df0)
          IN  IdsInOrder(SelectSeq(df_staging, Stayed)) = IdsInOrder(last.df0)

\* the undo of a bulk delete that put a row back in front of a row that had stayed
C34_Witness ==
    /\ Served("undo_change")
    /\ last.entry.action = "bulk_delete"
    /\ \E i \in 1..Len(last.entry.deleted_rows), j \in 1..Len(last.df0) :
          last.entry.deleted_rows[i]["_row_id"] < last.df0[j]["_row_id"]

\* the non-reserved columns of a row
DataColumns(row) == {k \in DOMAIN row : ~StartsWithUnderscore(k)}

\* same rows in the same order, with the same row_ids and non-reserved cells
SameData(a, b) ==
    /\ Len(a) = Len(b)
    /\ \A i \in 1..Len(a) :
          /\ a[i]["_row_id"] = b[i]["_row_id"]
          /\ DataColumns(a[i]) = DataColumns(b[i])
          /\ \A k \in DataColumns(a[i]) : a[i][k] = b[i][k]

\* C35: from a loaded table with an empty history and unchanged rules, every
\* successful mutation adds one history entry and every successful undo removes
\* one, and the undo that empties the history again leaves the rows of the loaded
\* table: same order, same row_ids, same non-reserved cells
C35_UndoRoundTrip ==
    [][/\ (last'.op \in MutationOps /\ last'.status = "success")
            => Len(history') = Len(history) + 1
       /\ (last'.op = "undo_change" /\ last'.status = "success")
            => /\ Len(history') = Len(history) - 1
               /\ history' = <<>> => SameData(df_staging', snapshot)]_vars

\* C36: on a live session, an undo request carrying the session's file_id succeeds
\* exactly when the history stack is not empty; a successful undo leaves the stack
\* one entry shorter, its remaining entries those that were below the top, and an
\* undo on the empty stack answers "nothing to undo".  So n consecutive undos empty a
\* stack of n entries and the next one is refused.
C36_UndoConsumesOneEntry ==
    [][(/\ budget' # budget
        /\ last'.op = "undo_change"
        /\ file_id # "<none>"
        /\ last'.token = file_id)
       => IF history # <<>>
          THEN /\ last'.status = "success"
               /\ Len(history') = Len(history) - 1
               /\ history' = SubSeq(history, 1, Len(history'))
          ELSE /\ last'.status = "Nada que deshacer"
               /\ history' = <<>>]_vars

\* C36 witness: a successful undo took the last entry of the stack and the undo
\* that followed it was refused.
C36_Witness ==
    /\ last.op = "undo_change"
    /\ last.status = "Nada que deshacer"
    /\ last.prev_op = "undo_change"
    /\ last.prev_status = "success"
    /\ last.hlen00 = 1
    /\ history = <<>>

\* the same priority and reason in every row
SamePriorities(a, b) ==
    /\ Len(a) = Len(b)
    /\ \A i \in 1..Len(a) :
          /\ a[i]["_priority"] = b[i]["_priority"]
          /\ a[i]["_priority_reason"] = b[i]["_priority_reason"]

\* the position of the rule a toggle request with this id writes to
ToggledRule(rs, rule_id) == SetMin({j \in 1..Len(rs) : rs[j].id = rule_id})

\* C37: the recompute after a rule is toggled off gives every row the priority and
\* reason it gets from the rule list with that rule removed, and toggling a rule
\* that was on off and then on again leaves every row with the priority and reason
\* it had before the two requests.
C37_InactiveRuleHasNoInfluence ==
    [][(/\ budget' # budget
        /\ last'.op = "api_toggle_rule"
        /\ df_staging # <<>>)
       => /\ (last'.target[3] = "off" /\ last'.target[4] # "absent")
             => LET j == ToggledRule(rules, last'.target[2])
                IN  /\ ~RuleActive(rules'[j])
                    /\ SamePriorities(df_staging',
                                      _recalculate_priorities(df_staging, RemoveAt(rules, j - 1),
                                                              settings, pay_group_col_name))
          /\ (/\ last'.target[3] = "on"
              /\ last.op = "api_toggle_rule"
              /\ last.target[2] = last'.target[2]
              /\ last.target[3] = "off"
              /\ last.target[4] = "on")
             => SamePriorities(df_staging', last.df0)]_vars

\* C37 witness: a rule was toggled off and on again; with it off some row had another
\* priority or reason, with it on again every row has what it had at first.
C37_Witness ==
    /\ last.op = "api_toggle_rule"
    /\ last.prev_op = "api_toggle_rule"
    /\ last.target[3] = "on"
    /\ last.target[4] = "off"
    /\ ~SamePriorities(df_staging, last.df0)
    /\ SamePriorities(df_staging, last.df00)

\* the stored rules whose id is not rule_id, among the first n
OthersUpTo(rs, rule_id, n) == {m \in 1..n : rs[m].id # rule_id}

\* every position but j holds the rule it held
OnlyChangedAt(rs, after, j) ==
    /\ Len(after) = Len(rs)
    /\ \A i \in 1..Len(rs) : i # j => after[i] = rs[i]

\* C38: saving a rule under an id the store holds puts the payload at the position of
\* the first rule with that id, leaves the number and the order of the rules as they
\* were and, when the payload has no active flag, keeps the flag the stored rule had;
\* a toggle changes only the active flag of the first rule with the id; a delete
\* removes the rules with the id and keeps the others in their order; toggle and
\* delete with an id no rule has leave the store as it was.
C38_RuleStoreFrame ==
    [][(budget' # budget) =>
          /\ (/\ last'.op = "api_save_rule"
              /\ StoredFlag(rules, last'.target[2].id) # "absent")
             => LET rule_data == last'.target[2]
                    j == ToggledRule(rules, rule_data.id)
                IN  /\ OnlyChangedAt(rules, rules', j)
                    /\ \A k \in DOMAIN rule_data : rules'[j][k] = rule_data[k]
                    /\ DOMAIN rules'[j] = (DOMAIN rule_data) \cup {"active"}
                    /\ "active" \notin DOMAIN rule_data
                          => rules'[j].active = RuleActive(rules[j])
          /\ (last'.op = "api_toggle_rule")
             => IF last'.target[4] = "absent" THEN rules' = rules
                ELSE LET j == ToggledRule(rules, last'.target[2])
                     IN  /\ OnlyChangedAt(rules, rules', j)
                         /\ rules'[j].active = (last'.target[3] = "on")
                         /\ \A k \in (DOMAIN rules[j]) \ {"active"} :
                               rules'[j][k] = rules[j][k]
                         /\ DOMAIN rules'[j] = (DOMAIN rules[j]) \cup {"active"}
          /\ (last'.op = "api_delete_rule")
             => LET rid == last'.target[2]
                IN  IF StoredFlag(rules, rid) = "absent" THEN rules' = rules
                    ELSE /\ Len(rules') = Cardinality(OthersUpTo(rules, rid, Len(rules)))
                         /\ \A i \in OthersUpTo(rules, rid, Len(rules)) :
                               rules'[Cardinality(OthersUpTo(rules, rid, i))] = rules[i]]_vars

\* C38 witness: a rule that had been switched off was edited with a payload that
\* carries no active flag; it is still off, still ahead of a later rule, and holds
\* the payload's reason.
C38_Witness ==
    /\ last.op = "api_save_rule"
    /\ last.prev_op = "api_toggle_rule"
    /\ "active" \notin DOMAIN last.target[2]
    /\ \E j \in 1..Len(rules) :
          /\ j < Len(rules)
          /\ rules[j].id = last.target[2].id
          /\ rules[j].reason = last.target[2].reason
          /\ ~rules[j].active

\* the rule has at least one condition
HasConditions(rule) == rule.conditions # <<>>

\* C39: a stored rule with an empty condition list changes no row: after the load,
\* after every recompute and after the agent's rule application, every row holds the
\* priority and reason it gets from the store without the rules that have no
\* condition.
C39_EmptyConditionsSkipped ==
    /\ (last.op \in {"upload_file", "api_toggle_rule", "api_save_settings"}
        /\ df_staging # <<>>)
       => SamePriorities(df_staging,
                         _recalculate_priorities(df_staging, SelectSeq(rules, HasConditions),
                                                 settings, pay_group_col_name))
    /\ (last.op = "chat_agent" /\ last.status = "success")
       => SamePriorities(df_staging,
                         agent_apply(last.df0, SelectSeq(rules, HasConditions)))

\* C39 witness: a recompute ran with an active rule without conditions stored last,
\* the place of highest precedence, over a table in which an earlier rule set a row.
C39_Witness ==
    /\ last.op = "api_toggle_rule"
    /\ df_staging # <<>>
    /\ rules # <<>>
    /\ rules[Len(rules)].conditions = <<>>
    /\ rules[Len(rules)].active
    /\ \E i \in 1..Len(df_staging), j \in 1..Len(rules) :
          df_staging[i]["_priority_reason"] = rules[j].reason

====
